---- MODULE Spec2Model ----
(***************************************************************************)
(* apex-load-generator: the range parser/validator, the four load          *)
(* generators' entry points and the eight request handlers of the          *)
(* range-supporting variant (src/unnamed/part_004).                        *)
(*                                                                         *)
(* Strings are sequences of one-character strings, so that Contains,       *)
(* Split, TrimSpace and Atoi are computed over the characters as the Go    *)
(* library computes them.                                                  *)
(***************************************************************************)
EXTENDS Integers, Sequences, FiniteSets, TLC

VARIABLES
    param,      \* parseIntOrRange call under test: the parameter text
    maxValue,   \* parseIntOrRange call under test: the ceiling
    ret,        \* parseIntOrRange call under test: Pending or the returned triple
    route,      \* handler that served the current request ("" before the first)
    params,     \* path parameters of the current request, by name
    log,        \* what the handler did, in order: parse, run and recover events
    calls,      \* what each operation function returned to the handler
    metrics,    \* the request's RequestMetrics: finish() called or not
    response,   \* the response written by the handler
    hexCall,    \* one createHexString call, statement by statement
    memStatsAlloc,  \* runtime.MemStats.Alloc: bytes of allocated heap objects
    numGoroutine,   \* runtime.NumGoroutine()
    requests,   \* the request under observation: position, locals, RequestMetrics
    randSource, \* values the process-wide random source has handed out to the
                \* request or call that is traced
    clock,      \* the monotonic clock, in nanoseconds
    run,        \* one request handled statement by statement
    primeCall,  \* one generatePrimes call, statement by statement
    fibCall,    \* one fibonacci call, statement by statement
    memCall,    \* one allocateMemory call, statement by statement
    tasks       \* the requests handled concurrently, each in its own goroutine

parserVars == <<param, maxValue, ret>>

handlerVars == <<route, params, log, calls, metrics, response>>

runtimeVars == <<memStatsAlloc, numGoroutine, requests>>

genVars == <<primeCall, fibCall, memCall>>

stepVars == <<clock, run, tasks>>

vars == <<param, maxValue, ret, route, params, log, calls, metrics, response,
          hexCall, memStatsAlloc, numGoroutine, requests,
          randSource, clock, run, primeCall, fibCall, memCall, tasks>>

(***************************************************************************)
(* Program constants                                                       *)
(***************************************************************************)
MaxMemoryKB == 1000000
MaxFibonacci == 45
MaxPrimes == 10000
\* mutant: the hex ceiling of the earlier revision
MaxHexKB_Earlier == 1000

MaxHexKB == 10000

StatusOK == 200
StatusBadRequest == 400
StatusInternalServerError == 500

(***************************************************************************)
(* Bounds of the model                                                     *)
(***************************************************************************)
\* longest parameter text enumerated exhaustively for parseIntOrRange
MaxLen == 5
\* largest ceiling handed to parseIntOrRange in the parser specification
MaxCeil == 11
\* largest count asked of generatePrimes when it is called directly
MaxPrimeN == 30
\* largest position asked of fibonacci when it is called directly
MaxFibN == 22
\* largest bound of the ranges handed to the operations called directly
MaxRangeN == 3
\* largest size, in KB, of the hex string filled character by character
MaxFillKB == 1
\* largest number of goroutines of the process
MaxGoroutines == 3
\* largest value of the heap-allocated counter
MaxAlloc == 2
\* largest size, in KB, of the allocations whose page-touch loop is stepped
MaxTouchKB == 40
\* number of requests handled concurrently
MaxTasks == 2
\* largest size of the operations of the requests handled statement by
\* statement
MaxStepN == 4
\* time that passes between two readings of the clock, in nanoseconds, when
\* any passes
ElapsedNs == 1500

(***************************************************************************)
(* Go library functions, over character sequences                          *)
(***************************************************************************)
Digits == <<"0", "1", "2", "3", "4", "5", "6", "7", "8", "9">>

IsDigit(c) == \E i \in 1..10 : Digits[i] = c

DigitVal(c) == (CHOOSE i \in 1..10 : Digits[i] = c) - 1

\* strings.Contains(s, substr)
Contains(s, substr) ==
    \E i \in 1..(Len(s) - Len(substr) + 1) :
        SubSeq(s, i, i + Len(substr) - 1) = substr

\* strings.Index(s, sep): first position (1-based) of sep in s, 0 when absent
Index(s, sep) ==
    IF Contains(s, sep)
    THEN CHOOSE i \in 1..(Len(s) - Len(sep) + 1) :
            /\ SubSeq(s, i, i + Len(sep) - 1) = sep
            /\ \A j \in 1..(i - 1) : SubSeq(s, j, j + Len(sep) - 1) # sep
    ELSE 0

\* strings.Split(s, sep) for a non-empty sep: cut at each successive,
\* non-overlapping occurrence found left to right
RECURSIVE Split(_, _)
Split(s, sep) ==
    LET i == Index(s, sep)
    IN  IF i = 0
        THEN <<s>>
        ELSE <<SubSeq(s, 1, i - 1)>> \o Split(SubSeq(s, i + Len(sep), Len(s)), sep)

IsSpace(c) == c \in {" ", "\t", "\n", "\r"}

\* strings.TrimSpace(s)
RECURSIVE TrimLeft(_)
TrimLeft(s) ==
    IF s # <<>> /\ IsSpace(Head(s)) THEN TrimLeft(Tail(s)) ELSE s

RECURSIVE TrimRight(_)
TrimRight(s) ==
    IF s # <<>> /\ IsSpace(s[Len(s)]) THEN TrimRight(SubSeq(s, 1, Len(s) - 1)) ELSE s

TrimSpace(s) == TrimRight(TrimLeft(s))

\* value of a digit string, most significant digit first
RECURSIVE DigitsValue(_, _)
DigitsValue(s, acc) ==
    IF s = <<>> THEN acc ELSE DigitsValue(Tail(s), acc * 10 + DigitVal(Head(s)))

\* strconv.Atoi(s): optional sign, then one or more decimal digits
Atoi(s) ==
    LET signed == s # <<>> /\ Head(s) \in {"+", "-"}
        body == IF signed THEN Tail(s) ELSE s
        syntaxErr == [ok |-> FALSE, val |-> 0, err |-> <<"invalid syntax">> \o s]
        rangeErr == [ok |-> FALSE, val |-> 0, err |-> <<"value out of range">> \o s]
    IN  IF body = <<>> THEN syntaxErr
        ELSE IF \E i \in 1..Len(body) : ~IsDigit(body[i]) THEN syntaxErr
        ELSE IF Len(body) > 19 THEN rangeErr  \* more digits than an int64 has
        ELSE [ok |-> TRUE,
              val |-> IF signed /\ Head(s) = "-"
                      THEN 0 - DigitsValue(body, 0)
                      ELSE DigitsValue(body, 0),
              err |-> <<>>]

\* strconv.Itoa(n), fmt's %d
RECURSIVE NatText(_)
NatText(n) ==
    IF n < 10 THEN <<Digits[n + 1]>> ELSE NatText(n \div 10) \o <<Digits[(n % 10) + 1]>>

Itoa(n) == IF n < 0 THEN <<"-">> \o NatText(0 - n) ELSE NatText(n)

\* mutant: the range width is passed without the +1, so max is never drawn
Intn_ExcludesMax(n) == 0..(n - 2)

\* rand.Intn(n): the values the process-wide source can return
Intn(n) == 0..(n - 1)

(***************************************************************************)
(* Errors: nil, or fmt.Errorf(format, argument)                            *)
(***************************************************************************)
Nil == [fmt |-> "nil", arg |-> <<>>]

Errorf(format, a) == [fmt |-> format, arg |-> a]

(***************************************************************************)
(* parseIntOrRange                                                         *)
(***************************************************************************)
Sep == <<".", ".">>

\* mutant: the random source is called before the text is validated
Failed_DrawsFirst(e) == {[value |-> 0, isRange |-> FALSE, err |-> e, rand |-> 1]}

\* every failing return: 0, false and the error; the random source was
\* not called
Failed(e) == {[value |-> 0, isRange |-> FALSE, err |-> e, rand |-> 0]}

\* mutant: only too few segments are refused
BadSegmentCount_TooFewOnly(parts) == Len(parts) < 2

\* len(parts) != 2
BadSegmentCount(parts) == Len(parts) # 2

\* mutant: the bounds of a range are not checked for their sign
RangeNegative_Never(min, max) == FALSE

\* min < 0 || max < 0
RangeNegative(min, max) == min < 0 \/ max < 0

\* mutant: the order of the bounds is not checked
RangeInverted_Never(min, max) == FALSE

\* min > max
RangeInverted(min, max) == min > max

\* mutant: only the lower bound is compared with the ceiling
RangeOutOfBounds_MinOnly(min, max, ceiling) == min > ceiling

\* min > maxValue || max > maxValue
RangeOutOfBounds(min, max, ceiling) == min > ceiling \/ max > ceiling

\* mutant: the sign of a bare value is not checked
SingleOutOfRange_NoSignCheck(value, ceiling) == value > ceiling

\* mutant: the ceiling itself is refused
SingleOutOfRange_CeilingExcluded(value, ceiling) == value < 0 \/ value >= ceiling

\* mutant: one above the ceiling is let through
SingleOutOfRange_OneAbove(value, ceiling) == value < 0 \/ value > ceiling + 1

\* value < 0 || value > maxValue
SingleOutOfRange(value, ceiling) == value < 0 \/ value > ceiling

\* rand.Intn(n) panics when n <= 0
IntnPanics(n) == n <= 0

\* the call did not return: rand.Intn(n) panicked with its argument
Panicked(n) ==
    {[value |-> 0, isRange |-> FALSE,
      err |-> Errorf("panic: invalid argument to Intn", Itoa(n)), rand |-> 1]}

\* the outcomes of the call, one per possible output of the random source:
\* the triple (value, isRange, err) it returns and rand, the number of
\* calls it made to the process-wide random source
parseIntOrRangeRand(p, ceiling) ==
    IF Contains(p, Sep)
    THEN LET parts == Split(p, Sep)
         IN  IF BadSegmentCount(parts)
             THEN Failed(Errorf("invalid range format, use min..max", <<>>))
             ELSE LET min == Atoi(TrimSpace(parts[1]))
                      max == Atoi(TrimSpace(parts[2]))
                  IN  IF ~min.ok
                      THEN Failed(Errorf("invalid minimum value: %v", min.err))
                      ELSE IF ~max.ok
                      THEN Failed(Errorf("invalid maximum value: %v", max.err))
                      ELSE IF RangeNegative(min.val, max.val)
                      THEN Failed(Errorf("values must be non-negative", <<>>))
                      ELSE IF RangeInverted(min.val, max.val)
                      THEN Failed(Errorf("minimum value cannot be greater than maximum", <<>>))
                      ELSE IF RangeOutOfBounds(min.val, max.val, ceiling)
                      THEN Failed(Errorf("values must be within range (0-%d)", Itoa(ceiling)))
                      ELSE IF IntnPanics(max.val - min.val + 1)
                      THEN Panicked(max.val - min.val + 1)
                      ELSE {[value |-> min.val + r, isRange |-> TRUE, err |-> Nil, rand |-> 1] :
                                r \in Intn(max.val - min.val + 1)}
    ELSE LET value == Atoi(p)
         IN  IF ~value.ok
             THEN Failed(Errorf("invalid number: %v", value.err))
             ELSE IF SingleOutOfRange(value.val, ceiling)
             THEN Failed(Errorf("number out of range (0-%d)", Itoa(ceiling)))
             ELSE {[value |-> value.val, isRange |-> FALSE, err |-> Nil, rand |-> 0]}

\* the set of triples (value, isRange, err) the call can return, one per
\* possible output of the random source
parseIntOrRange(p, ceiling) ==
    {[value |-> o.value, isRange |-> o.isRange, err |-> o.err] :
        o \in parseIntOrRangeRand(p, ceiling)}

(***************************************************************************)
(* Parser specification: one call of parseIntOrRange on a drawn input      *)
(***************************************************************************)
Alphabet == {"0", "1", "-", "+", ".", " ", "x"}

RECURSIVE StringsOfLen(_)
StringsOfLen(n) ==
    IF n = 0 THEN {<<>>}
    ELSE {<<c>> \o s : c \in Alphabet, s \in StringsOfLen(n - 1)}

\* every text over the alphabet up to MaxLen characters
Texts == UNION {StringsOfLen(n) : n \in 0..MaxLen}

Ceilings == 0..MaxCeil

\* the decimal texts of the integers around the ceilings, and every
\* "a..b" built from them
Numbers == (0 - 1)..(MaxCeil + 1)

NumberTexts == {Itoa(n) : n \in Numbers}

RangeText(a, b) == Itoa(a) \o Sep \o Itoa(b)

RangeTexts == {RangeText(a, b) : a \in Numbers, b \in Numbers}

\* texts of three segments, "a..b..c"
ThreePartTexts == {RangeText(a, b) \o Sep \o Itoa(c) : a \in 0..1, b \in 0..1, c \in 0..1}

ParseInputs == Texts \cup NumberTexts \cup RangeTexts \cup ThreePartTexts

\* the value of ret before the call has returned
Pending == [value |-> 0, isRange |-> FALSE, err |-> [fmt |-> "pending", arg |-> <<>>]]

NoRequest == [p |-> <<>>, f |-> <<>>, h |-> <<>>, m |-> <<>>]

NoResponse == [status |-> 0]

\* no createHexString call is being traced
NoHexCall ==
    [pc |-> "idle", param |-> <<>>, n |-> 0, wasRange |-> FALSE, len |-> 0, i |-> 0,
     byte |-> "", res |-> [SizeKB |-> 0, Length |-> 0, RequestedRange |-> <<>>],
     err |-> Nil]

HexIdle == hexCall = NoHexCall

\* no concurrent request is being traced
RuntimeIdle ==
    /\ memStatsAlloc = 0
    /\ numGoroutine = 1
    /\ requests = <<>>

\* no generatePrimes call is being traced
NoPrimeCall ==
    [pc |-> "idle", param |-> <<>>, n |-> 0, wasRange |-> FALSE, primes |-> <<>>,
     lastPrime |-> 0, count |-> 0, candidate |-> 0, idx |-> 0, isPrime |-> FALSE,
     divided |-> <<>>, iterations |-> 0,
     res |-> [Count |-> 0, LastPrime |-> 0, RequestedRange |-> <<>>], err |-> Nil]

\* no fibonacci call is being traced
NoFibCall ==
    [pc |-> "idle", param |-> <<>>, n |-> 0, wasRange |-> FALSE, stack |-> <<>>,
     returning |-> FALSE, value |-> 0, invocations |-> 0,
     res |-> [N |-> 0, Result |-> 0, RequestedRange |-> <<>>], err |-> Nil]

\* no allocateMemory call is being traced
NoMemCall ==
    [pc |-> "idle", param |-> <<>>, k |-> 0, wasRange |-> FALSE, len |-> 0, i |-> 0,
     made |-> FALSE, writes |-> <<>>, panicked |-> FALSE, localErr |-> Nil,
     res |-> [SizeKB |-> 0, RequestedRange |-> <<>>], err |-> Nil]

GenIdle ==
    /\ primeCall = NoPrimeCall
    /\ fibCall = NoFibCall
    /\ memCall = NoMemCall

\* RequestMetrics{}, with the number of times finish() was called on it
NoStepMetrics == [StartTime |-> 0, EndTime |-> 0, DurationUs |-> 0, finishCalls |-> 0]

\* no request is being handled statement by statement
NoRun ==
    [pc |-> "waiting", route |-> "", params |-> NoRequest, start |-> 0,
     data |-> <<>>, metrics |-> NoStepMetrics, responses |-> <<>>, trace |-> <<>>]

StepIdle ==
    /\ clock = 0
    /\ run = NoRun
    /\ tasks = <<>>

\* the random source has handed out nothing yet
RandIdle == randSource = 0

ParserIdle ==
    /\ param = <<>>
    /\ maxValue = 0
    /\ ret = Pending

HandlerIdle ==
    /\ route = ""
    /\ params = NoRequest
    /\ log = <<>>
    /\ calls = <<>>
    /\ metrics = [finished |-> FALSE]
    /\ response = NoResponse

InitParse ==
    /\ param \in ParseInputs
    /\ maxValue \in Ceilings
    /\ ret = Pending
    /\ HandlerIdle
    /\ HexIdle
    /\ RuntimeIdle
    /\ RandIdle
    /\ GenIdle
    /\ StepIdle

ParseCall ==
    /\ ret = Pending
    /\ \E o \in parseIntOrRangeRand(param, maxValue) :
           /\ ret' = [value |-> o.value, isRange |-> o.isRange, err |-> o.err]
           /\ randSource' = randSource + o.rand
    /\ UNCHANGED <<param, maxValue, handlerVars, hexCall, runtimeVars, genVars, stepVars>>

NextParse == ParseCall

SpecParse == InitParse /\ [][NextParse]_vars

(***************************************************************************)
(* Events a handler leaves in log, in program order                        *)
(***************************************************************************)
\* parseIntOrRange returned for operation op: nil error (ok) or not; rand
\* is the number of values the event took from the random source
Parsed(op, pr) ==
    [ok |-> pr.err = Nil, ev |-> "parse", op |-> op, size |-> pr.value, rand |-> pr.rand]

\* the generator body of operation op executed with size n; the hex fill
\* calls rand.Intn(16) once for each of its n*1024 bytes
Ran(op, n) ==
    [ok |-> TRUE, ev |-> "run", op |-> op, size |-> n,
     rand |-> IF op = "hex" THEN n * 1024 ELSE 0]

\* the allocation of n KB panicked and the deferred function recovered
Recovered(op, n) == [ok |-> FALSE, ev |-> "recover", op |-> op, size |-> n, rand |-> 0]

\* the values a sequence of events took from the random source
RECURSIVE Draws(_)
Draws(events) ==
    IF events = <<>> THEN 0 ELSE Head(events).rand + Draws(Tail(events))

\* RequestedRange: the parameter text only if it was a range ("" otherwise)
RequestedRange(wasRange, p) == IF wasRange THEN p ELSE <<>>

(***************************************************************************)
(* allocateMemory                                                          *)
(***************************************************************************)
\* MemoryResult{}
ZeroMemoryResult == [SizeKB |-> 0, RequestedRange |-> <<>>]

\* outcomes of make([]byte, k*1024) and the page-touch loop: a zero-length
\* allocation cannot fail
AllocOutcomes(k) == IF k * 1024 > 0 THEN {"ok", "panic"} ELSE {"ok"}

\* what the function returns when the deferred recover() has stopped a
\* panic: the results are unnamed, so the deferred assignment to the local
\* err does not reach them and the caller receives their zero values
ReturnAfterRecover(localErr) == [res |-> ZeroMemoryResult, err |-> Nil]

\* mutant: the size is reported in bytes
allocateMemory_SizeInBytes(p) ==
    UNION {
        IF pr.err # Nil
        THEN {[res |-> ZeroMemoryResult, err |-> pr.err, log |-> <<Parsed("memory", pr)>>]}
        ELSE LET k == pr.value
             IN  {IF a = "panic"
                  THEN LET r == ReturnAfterRecover(Errorf("memory allocation failed: %v", <<>>))
                       IN  [res |-> r.res, err |-> r.err,
                            log |-> <<Parsed("memory", pr), Ran("memory", k), Recovered("memory", k)>>]
                  ELSE [res |-> [SizeKB |-> k * 1024, RequestedRange |-> RequestedRange(pr.isRange, p)],
                        err |-> Nil,
                        log |-> <<Parsed("memory", pr), Ran("memory", k)>>]
                  : a \in AllocOutcomes(k)}
        : pr \in parseIntOrRangeRand(p, MaxMemoryKB)}

allocateMemory(p) ==
    UNION {
        IF pr.err # Nil
        THEN {[res |-> ZeroMemoryResult, err |-> pr.err, log |-> <<Parsed("memory", pr)>>]}
        ELSE LET k == pr.value
             IN  {IF a = "panic"
                  THEN LET r == ReturnAfterRecover(Errorf("memory allocation failed: %v", <<>>))
                       IN  [res |-> r.res, err |-> r.err,
                            log |-> <<Parsed("memory", pr), Ran("memory", k), Recovered("memory", k)>>]
                  ELSE [res |-> [SizeKB |-> k, RequestedRange |-> RequestedRange(pr.isRange, p)],
                        err |-> Nil,
                        log |-> <<Parsed("memory", pr), Ran("memory", k)>>]
                  : a \in AllocOutcomes(k)}
        : pr \in parseIntOrRangeRand(p, MaxMemoryKB)}

(***************************************************************************)
(* fibonacci                                                               *)
(***************************************************************************)
RECURSIVE fibonacciRecursive(_)
fibonacciRecursive(n) ==
    IF n <= 1 THEN n ELSE fibonacciRecursive(n - 1) + fibonacciRecursive(n - 2)

\* FibonacciResult{}
ZeroFibonacciResult == [N |-> 0, Result |-> 0, RequestedRange |-> <<>>]

\* mutant: the recursion is entered one position too low
fibonacci_OffByOne(p) ==
    {IF pr.err # Nil
     THEN [res |-> ZeroFibonacciResult, err |-> pr.err, log |-> <<Parsed("fibonacci", pr)>>]
     ELSE LET n == pr.value
          IN  [res |-> [N |-> n,
                        Result |-> IF n <= 1 THEN n ELSE fibonacciRecursive(n - 1),
                        RequestedRange |-> RequestedRange(pr.isRange, p)],
               err |-> Nil,
               log |-> <<Parsed("fibonacci", pr), Ran("fibonacci", n)>>]
     : pr \in parseIntOrRangeRand(p, MaxFibonacci)}

fibonacci(p) ==
    {IF pr.err # Nil
     THEN [res |-> ZeroFibonacciResult, err |-> pr.err, log |-> <<Parsed("fibonacci", pr)>>]
     ELSE LET n == pr.value
          IN  [res |-> [N |-> n,
                        Result |-> IF n <= 1 THEN n ELSE fibonacciRecursive(n),
                        RequestedRange |-> RequestedRange(pr.isRange, p)],
               err |-> Nil,
               log |-> <<Parsed("fibonacci", pr), Ran("fibonacci", n)>>]
     : pr \in parseIntOrRangeRand(p, MaxFibonacci)}

(***************************************************************************)
(* generatePrimes                                                          *)
(***************************************************************************)
\* the inner loop: trial division of candidate by the stored primes, in
\* order, from index i on
RECURSIVE TrialDivision(_, _, _)
TrialDivision(primes, i, candidate) ==
    IF i > Len(primes) THEN TRUE
    ELSE IF primes[i] * primes[i] > candidate THEN TRUE
    ELSE IF candidate % primes[i] = 0 THEN FALSE
    ELSE TrialDivision(primes, i + 1, candidate)

\* the outer loop: for candidate := 3; count < n; candidate += 2
RECURSIVE PrimeLoop(_, _, _, _, _)
PrimeLoop(primes, lastPrime, count, candidate, n) ==
    IF ~(count < n)
    THEN [Count |-> count, LastPrime |-> lastPrime]
    ELSE IF TrialDivision(primes, 1, candidate)
         THEN PrimeLoop(Append(primes, candidate), candidate, count + 1, candidate + 2, n)
         ELSE PrimeLoop(primes, lastPrime, count, candidate + 2, n)

\* PrimeResult{}
ZeroPrimeResult == [Count |-> 0, LastPrime |-> 0, RequestedRange |-> <<>>]

\* mutant: the count starts at 0 although 2 is already stored
generatePrimes_CountsFromZero(p) ==
    {IF pr.err # Nil
     THEN [res |-> ZeroPrimeResult, err |-> pr.err, log |-> <<Parsed("primes", pr)>>]
     ELSE LET n == pr.value
              found == IF n <= 0 THEN [Count |-> 0, LastPrime |-> 0]
                       ELSE IF n = 1 THEN [Count |-> 1, LastPrime |-> 2]
                       ELSE PrimeLoop(<<2>>, 2, 0, 3, n)
          IN  [res |-> [Count |-> found.Count, LastPrime |-> found.LastPrime,
                        RequestedRange |-> RequestedRange(pr.isRange, p)],
               err |-> Nil,
               log |-> <<Parsed("primes", pr), Ran("primes", n)>>]
     : pr \in parseIntOrRangeRand(p, MaxPrimes)}

generatePrimes(p) ==
    {IF pr.err # Nil
     THEN [res |-> ZeroPrimeResult, err |-> pr.err, log |-> <<Parsed("primes", pr)>>]
     ELSE LET n == pr.value
              found == IF n <= 0 THEN [Count |-> 0, LastPrime |-> 0]
                       ELSE IF n = 1 THEN [Count |-> 1, LastPrime |-> 2]
                       ELSE PrimeLoop(<<2>>, 2, 1, 3, n)
          IN  [res |-> [Count |-> found.Count, LastPrime |-> found.LastPrime,
                        RequestedRange |-> RequestedRange(pr.isRange, p)],
               err |-> Nil,
               log |-> <<Parsed("primes", pr), Ran("primes", n)>>]
     : pr \in parseIntOrRangeRand(p, MaxPrimes)}

(***************************************************************************)
(* createHexString                                                         *)
(***************************************************************************)
\* HexResult{}
ZeroHexResult == [SizeKB |-> 0, Length |-> 0, RequestedRange |-> <<>>]

\* mutant: the buffer is filled before the parse error is looked at
createHexString_FillsBeforeCheck(p) ==
    {IF pr.err # Nil
     THEN [res |-> ZeroHexResult, err |-> pr.err,
           log |-> <<Parsed("hex", pr), Ran("hex", pr.value)>>]
     ELSE LET n == pr.value
          IN  [res |-> [SizeKB |-> n, Length |-> n * 1024,
                        RequestedRange |-> RequestedRange(pr.isRange, p)],
               err |-> Nil,
               log |-> <<Parsed("hex", pr), Ran("hex", n)>>]
     : pr \in parseIntOrRangeRand(p, MaxHexKB)}

\* mutant: the buffer is filled a second time before the result is built
createHexString_FillsTwice(p) ==
    {IF pr.err # Nil
     THEN [res |-> ZeroHexResult, err |-> pr.err, log |-> <<Parsed("hex", pr)>>]
     ELSE LET n == pr.value
          IN  [res |-> [SizeKB |-> n, Length |-> n * 1024,
                        RequestedRange |-> RequestedRange(pr.isRange, p)],
               err |-> Nil,
               log |-> <<Parsed("hex", pr), Ran("hex", n), Ran("hex", n)>>]
     : pr \in parseIntOrRangeRand(p, MaxHexKB)}

\* The characters of HexString, each hexChars[rand.Intn(16)], are not kept
\* in the state; the length of the string is.
createHexString(p) ==
    {IF pr.err # Nil
     THEN [res |-> ZeroHexResult, err |-> pr.err, log |-> <<Parsed("hex", pr)>>]
     ELSE LET n == pr.value
          IN  [res |-> [SizeKB |-> n, Length |-> n * 1024,
                        RequestedRange |-> RequestedRange(pr.isRange, p)],
               err |-> Nil,
               log |-> <<Parsed("hex", pr), Ran("hex", n)>>]
     : pr \in parseIntOrRangeRand(p, MaxHexKB)}

(***************************************************************************)
(* Request metrics and responses                                           *)
(***************************************************************************)
\* startRequestMetrics(): a fresh RequestMetrics, not yet finished
startRequestMetrics == [finished |-> FALSE]

\* mutant: finish leaves the metrics as they were started
finish_Nothing(rm) == rm

\* rm.finish(): completes the metrics
finish(rm) == [rm EXCEPT !.finished = TRUE]

\* mutant: the message does not name the parameter
BadRequest_Unnamed(name, e) ==
    [status |-> StatusBadRequest, message |-> [name |-> "", err |-> e]]

\* c.IndentedJSON(http.StatusBadRequest, gin.H{"message": "<name>: <err>"})
BadRequest(name, e) ==
    [status |-> StatusBadRequest, message |-> [name |-> name, err |-> e]]

\* c.IndentedJSON(http.StatusOK, gin.H{"data": ..., "request_metrics": ...})
OK(data, rm) ==
    [status |-> StatusOK, data |-> data, request_metrics |-> rm]

\* what an operation function handed back to the handler
Ret(o) == [res |-> o.res, err |-> o.err]

\* the state a handler leaves behind once it has returned
Serve(handler, req, events, returned, rm, resp) ==
    /\ route' = handler
    /\ params' = req
    /\ log' = events
    /\ calls' = returned
    /\ metrics' = rm
    /\ response' = resp
    /\ randSource' = randSource + Draws(events)
    /\ UNCHANGED <<parserVars, hexCall, runtimeVars, genVars, stepVars>>

(***************************************************************************)
(* Routes: the operations of each handler                                  *)
(***************************************************************************)
MultiHandlers == {"getFibonacciHex", "getPrimesHex", "fibonacciHexMemory", "primesHexMemory"}

\* the operations each handler calls, in the order it calls them
Operations(handler) ==
    CASE handler = "getMemory" -> <<"memory">>
      [] handler = "getFibonacci" -> <<"fibonacci">>
      [] handler = "getPrimes" -> <<"primes">>
      [] handler = "getHexString" -> <<"hex">>
      [] handler = "getFibonacciHex" -> <<"fibonacci", "hex">>
      [] handler = "getPrimesHex" -> <<"primes", "hex">>
      [] handler = "fibonacciHexMemory" -> <<"fibonacci", "hex", "memory">>
      [] handler = "primesHexMemory" -> <<"primes", "hex", "memory">>
      [] OTHER -> <<>>

\* the path parameter that sizes an operation
Letter(op) ==
    CASE op = "primes" -> "p"
      [] op = "fibonacci" -> "f"
      [] op = "hex" -> "h"
      [] op = "memory" -> "m"

\* the ceiling of an operation's parameter
CeilingOf(op) ==
    CASE op = "primes" -> MaxPrimes
      [] op = "fibonacci" -> MaxFibonacci
      [] op = "hex" -> MaxHexKB
      [] op = "memory" -> MaxMemoryKB

(***************************************************************************)
(* Requests: the parameter texts sent to each path segment                 *)
(***************************************************************************)
Invalid == <<"i", "n", "v", "a", "l", "i", "d">>

\* texts no ceiling c accepts
BadTexts(c) ==
    { Invalid, Itoa(0 - 10), Itoa(c + 1), RangeText(150, 50), RangeText(c, c + 1),
      RangeText(50, 100) \o Sep \o Itoa(150) }

PTexts == {Itoa(0), Itoa(1), Itoa(5), RangeText(3, 7)} \cup BadTexts(MaxPrimes)

FTexts == {Itoa(0), Itoa(1), Itoa(5), RangeText(3, 7)} \cup BadTexts(MaxFibonacci)

HTexts == {Itoa(0), Itoa(1), RangeText(1, 3), Itoa(MaxHexKB)} \cup BadTexts(MaxHexKB)

MTexts == {Itoa(0), Itoa(10), RangeText(5, 15), Itoa(MaxMemoryKB)} \cup BadTexts(MaxMemoryKB)

(***************************************************************************)
(* Handlers                                                                *)
(***************************************************************************)
getMemory ==
    /\ response = NoResponse
    /\ \E m \in MTexts :
        LET req == [NoRequest EXCEPT !.m = m]
            started == startRequestMetrics
        IN
        \E mResult \in allocateMemory(m) :
            IF mResult.err # Nil
            THEN Serve("getMemory", req, mResult.log,
                       <<Ret(mResult)>>, started,
                       BadRequest("m", mResult.err))
            ELSE Serve("getMemory", req, mResult.log,
                       <<Ret(mResult)>>, finish(started),
                       OK(mResult.res, finish(started)))

getFibonacci ==
    /\ response = NoResponse
    /\ \E f \in FTexts :
        LET req == [NoRequest EXCEPT !.f = f]
            started == startRequestMetrics
        IN
        \E fResult \in fibonacci(f) :
            IF fResult.err # Nil
            THEN Serve("getFibonacci", req, fResult.log,
                       <<Ret(fResult)>>, started,
                       BadRequest("f", fResult.err))
            ELSE Serve("getFibonacci", req, fResult.log,
                       <<Ret(fResult)>>, finish(started),
                       OK(fResult.res, finish(started)))

getPrimes ==
    /\ response = NoResponse
    /\ \E p \in PTexts :
        LET req == [NoRequest EXCEPT !.p = p]
            started == startRequestMetrics
        IN
        \E pResult \in generatePrimes(p) :
            IF pResult.err # Nil
            THEN Serve("getPrimes", req, pResult.log,
                       <<Ret(pResult)>>, started,
                       BadRequest("p", pResult.err))
            ELSE Serve("getPrimes", req, pResult.log,
                       <<Ret(pResult)>>, finish(started),
                       OK(pResult.res, finish(started)))

getHexString ==
    /\ response = NoResponse
    /\ \E h \in HTexts :
        LET req == [NoRequest EXCEPT !.h = h]
            started == startRequestMetrics
        IN
        \E hResult \in createHexString(h) :
            IF hResult.err # Nil
            THEN Serve("getHexString", req, hResult.log,
                       <<Ret(hResult)>>, started,
                       BadRequest("h", hResult.err))
            ELSE Serve("getHexString", req, hResult.log,
                       <<Ret(hResult)>>, finish(started),
                       OK(hResult.res, finish(started)))

getFibonacciHex ==
    /\ response = NoResponse
    /\ \E f \in FTexts, h \in HTexts :
        LET req == [NoRequest EXCEPT !.f = f, !.h = h]
            started == startRequestMetrics
        IN
        \E fResult \in fibonacci(f) :
            IF fResult.err # Nil
            THEN Serve("getFibonacciHex", req, fResult.log,
                       <<Ret(fResult)>>, started,
                       BadRequest("f", fResult.err))
            ELSE
            \E hResult \in createHexString(h) :
                IF hResult.err # Nil
                THEN Serve("getFibonacciHex", req, fResult.log \o hResult.log,
                           <<Ret(fResult), Ret(hResult)>>, started,
                           BadRequest("h", hResult.err))
                ELSE Serve("getFibonacciHex", req, fResult.log \o hResult.log,
                           <<Ret(fResult), Ret(hResult)>>, finish(started),
                           OK([fibonacci_result |-> fResult.res, hex_result |-> hResult.res], finish(started)))

getPrimesHex ==
    /\ response = NoResponse
    /\ \E p \in PTexts, h \in HTexts :
        LET req == [NoRequest EXCEPT !.p = p, !.h = h]
            started == startRequestMetrics
        IN
        \E pResult \in generatePrimes(p) :
            IF pResult.err # Nil
            THEN Serve("getPrimesHex", req, pResult.log,
                       <<Ret(pResult)>>, started,
                       BadRequest("p", pResult.err))
            ELSE
            \E hResult \in createHexString(h) :
                IF hResult.err # Nil
                THEN Serve("getPrimesHex", req, pResult.log \o hResult.log,
                           <<Ret(pResult), Ret(hResult)>>, started,
                           BadRequest("h", hResult.err))
                ELSE Serve("getPrimesHex", req, pResult.log \o hResult.log,
                           <<Ret(pResult), Ret(hResult)>>, finish(started),
                           OK([prime_result |-> pResult.res, hex_result |-> hResult.res], finish(started)))

fibonacciHexMemory ==
    /\ response = NoResponse
    /\ \E f \in FTexts, h \in HTexts, m \in MTexts :
        LET req == [NoRequest EXCEPT !.f = f, !.h = h, !.m = m]
            started == startRequestMetrics
        IN
        \E fResult \in fibonacci(f) :
            IF fResult.err # Nil
            THEN Serve("fibonacciHexMemory", req, fResult.log,
                       <<Ret(fResult)>>, started,
                       BadRequest("f", fResult.err))
            ELSE
            \E hResult \in createHexString(h) :
                IF hResult.err # Nil
                THEN Serve("fibonacciHexMemory", req, fResult.log \o hResult.log,
                           <<Ret(fResult), Ret(hResult)>>, started,
                           BadRequest("h", hResult.err))
                ELSE
                \E mResult \in allocateMemory(m) :
                    IF mResult.err # Nil
                    THEN Serve("fibonacciHexMemory", req, fResult.log \o hResult.log \o mResult.log,
                               <<Ret(fResult), Ret(hResult), Ret(mResult)>>, started,
                               BadRequest("m", mResult.err))
                    ELSE Serve("fibonacciHexMemory", req, fResult.log \o hResult.log \o mResult.log,
                               <<Ret(fResult), Ret(hResult), Ret(mResult)>>, finish(started),
                               OK([fibonacci_result |-> fResult.res, hex_result |-> hResult.res, memory_result |-> mResult.res], finish(started)))

primesHexMemory ==
    /\ response = NoResponse
    /\ \E p \in PTexts, h \in HTexts, m \in MTexts :
        LET req == [NoRequest EXCEPT !.p = p, !.h = h, !.m = m]
            started == startRequestMetrics
        IN
        \E pResult \in generatePrimes(p) :
            IF pResult.err # Nil
            THEN Serve("primesHexMemory", req, pResult.log,
                       <<Ret(pResult)>>, started,
                       BadRequest("p", pResult.err))
            ELSE
            \E hResult \in createHexString(h) :
                IF hResult.err # Nil
                THEN Serve("primesHexMemory", req, pResult.log \o hResult.log,
                           <<Ret(pResult), Ret(hResult)>>, started,
                           BadRequest("h", hResult.err))
                ELSE
                \E mResult \in allocateMemory(m) :
                    IF mResult.err # Nil
                    THEN Serve("primesHexMemory", req, pResult.log \o hResult.log \o mResult.log,
                               <<Ret(pResult), Ret(hResult), Ret(mResult)>>, started,
                               BadRequest("m", mResult.err))
                    ELSE Serve("primesHexMemory", req, pResult.log \o hResult.log \o mResult.log,
                               <<Ret(pResult), Ret(hResult), Ret(mResult)>>, finish(started),
                               OK([prime_result |-> pResult.res, hex_result |-> hResult.res, memory_result |-> mResult.res], finish(started)))

\* the handler has returned and its request-scoped values are dropped; the
\* router takes the next request
NextRequest ==
    /\ response # NoResponse
    /\ route' = ""
    /\ params' = NoRequest
    /\ log' = <<>>
    /\ calls' = <<>>
    /\ metrics' = [finished |-> FALSE]
    /\ response' = NoResponse
    /\ randSource' = 0
    /\ UNCHANGED <<parserVars, hexCall, runtimeVars, genVars, stepVars>>

Init ==
    /\ param = <<>>
    /\ maxValue = 0
    /\ ret = Pending
    /\ HandlerIdle
    /\ HexIdle
    /\ RuntimeIdle
    /\ RandIdle
    /\ GenIdle
    /\ StepIdle

Next ==
    \/ NextRequest
    \/ getMemory
    \/ getFibonacci
    \/ getPrimes
    \/ getHexString
    \/ getFibonacciHex
    \/ getPrimesHex
    \/ fibonacciHexMemory
    \/ primesHexMemory

Spec == Init /\ [][Next]_vars

(***************************************************************************)
(* Operation specification: one direct call of one of the four operation   *)
(* functions, as the unit tests call them                                  *)
(***************************************************************************)
SmallRangeTexts == {RangeText(a, b) : a \in 0..MaxRangeN, b \in 0..MaxRangeN}

PrimeCallTexts ==
    {Itoa(n) : n \in 0..MaxPrimeN} \cup SmallRangeTexts \cup BadTexts(MaxPrimes)

FibCallTexts ==
    {Itoa(n) : n \in 0..MaxFibN} \cup SmallRangeTexts \cup BadTexts(MaxFibonacci)

HexCallTexts ==
    {Itoa(n) : n \in 0..MaxRangeN} \cup SmallRangeTexts \cup {Itoa(MaxHexKB)}
        \cup BadTexts(MaxHexKB)

MemoryCallTexts ==
    {Itoa(n) : n \in 0..MaxRangeN} \cup SmallRangeTexts
        \cup {Itoa(10), Itoa(MaxMemoryKB), RangeText(MaxMemoryKB - 1, MaxMemoryKB)}
        \cup BadTexts(MaxMemoryKB)

\* the arguments of the call: one parameter text, for one operation
CallArguments ==
    {[NoRequest EXCEPT !.p = t] : t \in PrimeCallTexts}
        \cup {[NoRequest EXCEPT !.f = t] : t \in FibCallTexts}
        \cup {[NoRequest EXCEPT !.h = t] : t \in HexCallTexts}
        \cup {[NoRequest EXCEPT !.m = t] : t \in MemoryCallTexts}

InitCall ==
    /\ ParserIdle
    /\ route = ""
    /\ params \in CallArguments
    /\ log = <<>>
    /\ calls = <<>>
    /\ metrics = [finished |-> FALSE]
    /\ response = NoResponse
    /\ HexIdle
    /\ RuntimeIdle
    /\ RandIdle
    /\ GenIdle
    /\ StepIdle

\* the function returned o
ReturnFromCall(o) ==
    /\ calls = <<>>
    /\ calls' = <<Ret(o)>>
    /\ log' = o.log
    /\ randSource' = randSource + Draws(o.log)
    /\ UNCHANGED <<parserVars, route, params, metrics, response, hexCall, runtimeVars, genVars, stepVars>>

CallGeneratePrimes ==
    /\ params.p # <<>>
    /\ \E o \in generatePrimes(params.p) : ReturnFromCall(o)

CallFibonacci ==
    /\ params.f # <<>>
    /\ \E o \in fibonacci(params.f) : ReturnFromCall(o)

CallCreateHexString ==
    /\ params.h # <<>>
    /\ \E o \in createHexString(params.h) : ReturnFromCall(o)

CallAllocateMemory ==
    /\ params.m # <<>>
    /\ \E o \in allocateMemory(params.m) : ReturnFromCall(o)

NextCall ==
    \/ CallGeneratePrimes
    \/ CallFibonacci
    \/ CallCreateHexString
    \/ CallAllocateMemory

SpecCall == InitCall /\ [][NextCall]_vars

(***************************************************************************)
(* Hex specification: one call of createHexString, statement by statement, *)
(* with one step per iteration of the fill loop.  Of the buffer the state  *)
(* keeps its length, the number of bytes written so far and the byte       *)
(* written last.                                                            *)
(***************************************************************************)
\* mutant: the table holds upper-case letters
hexChars_UpperCase ==
    <<"0", "1", "2", "3", "4", "5", "6", "7", "8", "9", "A", "B", "C", "D", "E", "F">>

\* hexChars := "0123456789abcdef"
hexChars ==
    <<"0", "1", "2", "3", "4", "5", "6", "7", "8", "9", "a", "b", "c", "d", "e", "f">>

HexFillTexts ==
    {Itoa(n) : n \in 0..MaxFillKB} \cup {RangeText(0, MaxFillKB)}
        \cup {Invalid, Itoa(MaxHexKB + 1)}

InitHex ==
    /\ ParserIdle
    /\ HandlerIdle
    /\ RuntimeIdle
    /\ RandIdle
    /\ GenIdle
    /\ StepIdle
    /\ hexCall \in {[NoHexCall EXCEPT !.pc = "called", !.param = t] : t \in HexFillTexts}

\* parseIntOrRange(param, MaxHexKB, "hex"), the early return on its error,
\* and result := make([]byte, n*1024)
HexParse ==
    /\ hexCall.pc = "called"
    /\ \E pr \in parseIntOrRangeRand(hexCall.param, MaxHexKB) :
           /\ hexCall' = IF pr.err # Nil
                         THEN [hexCall EXCEPT !.pc = "returned", !.res = ZeroHexResult,
                                              !.err = pr.err]
                         ELSE [hexCall EXCEPT !.pc = "fill", !.n = pr.value,
                                              !.wasRange = pr.isRange,
                                              !.len = pr.value * 1024, !.i = 0]
           /\ randSource' = randSource + pr.rand
    /\ UNCHANGED <<parserVars, handlerVars, runtimeVars, genVars, stepVars>>

\* one iteration of for i := range result: result[i] = hexChars[rand.Intn(16)]
HexFill ==
    /\ hexCall.pc = "fill"
    /\ hexCall.i < hexCall.len
    /\ \E d \in Intn(16) :
           hexCall' = [hexCall EXCEPT !.byte = hexChars[d + 1], !.i = hexCall.i + 1]
    /\ randSource' = randSource + 1
    /\ UNCHANGED <<parserVars, handlerVars, runtimeVars, genVars, stepVars>>

\* the loop is over: hexString := string(result), the HexResult is built
\* and returned with a nil error
HexReturn ==
    /\ hexCall.pc = "fill"
    /\ ~(hexCall.i < hexCall.len)
    /\ hexCall' = [hexCall EXCEPT
                      !.pc = "returned",
                      !.res = [SizeKB |-> hexCall.n, Length |-> hexCall.len,
                               RequestedRange |-> RequestedRange(hexCall.wasRange, hexCall.param)],
                      !.err = Nil]
    /\ UNCHANGED <<parserVars, handlerVars, runtimeVars, randSource, genVars, stepVars>>

NextHex ==
    \/ HexParse
    \/ HexFill
    \/ HexReturn

SpecHex == InitHex /\ [][NextHex]_vars

(***************************************************************************)
(* generatePrimes, statement by statement: one step for the parse and the  *)
(* early returns, one for each test of the outer loop, one for each pass   *)
(* of the inner loop, one for the statements after the inner loop          *)
(***************************************************************************)
\* mutant: the inner loop also stops at a prime whose square is the candidate
SquareExceeds_OrEquals(prime, candidate) == prime * prime >= candidate

\* prime*prime > candidate
SquareExceeds(prime, candidate) == prime * prime > candidate

\* what the statement-by-statement generators leave alone
PrimeFrame == UNCHANGED <<parserVars, handlerVars, hexCall, runtimeVars, fibCall, memCall, stepVars>>

\* parseIntOrRange(param, MaxPrimes, "primes"), the return on its error, the
\* returns for n <= 0 and n == 1, and primes := []int{2}, lastPrime := 2,
\* count := 1, candidate := 3
PrimeParse ==
    /\ primeCall.pc = "called"
    /\ \E pr \in parseIntOrRangeRand(primeCall.param, MaxPrimes) :
           /\ primeCall' =
                  IF pr.err # Nil
                  THEN [primeCall EXCEPT !.pc = "returned", !.err = pr.err]
                  ELSE IF pr.value <= 0
                  THEN [primeCall EXCEPT
                           !.pc = "returned", !.n = pr.value, !.wasRange = pr.isRange,
                           !.res = [Count |-> 0, LastPrime |-> 0,
                                    RequestedRange |-> RequestedRange(pr.isRange, primeCall.param)]]
                  ELSE IF pr.value = 1
                  THEN [primeCall EXCEPT
                           !.pc = "returned", !.n = pr.value, !.wasRange = pr.isRange,
                           !.res = [Count |-> 1, LastPrime |-> 2,
                                    RequestedRange |-> RequestedRange(pr.isRange, primeCall.param)]]
                  ELSE [primeCall EXCEPT
                           !.pc = "outer", !.n = pr.value, !.wasRange = pr.isRange,
                           !.primes = <<2>>, !.lastPrime = 2, !.count = 1, !.candidate = 3]
           /\ randSource' = randSource + pr.rand
    /\ PrimeFrame

\* the outer loop continues (count < n): isPrime := true and the inner
\* loop starts at the first stored prime
PrimeOuter ==
    /\ primeCall.pc = "outer"
    /\ primeCall.count < primeCall.n
    /\ primeCall' = [primeCall EXCEPT !.pc = "inner", !.isPrime = TRUE, !.idx = 1,
                                      !.divided = <<>>]
    /\ UNCHANGED randSource
    /\ PrimeFrame

\* one pass of for _, prime := range primes: the loop is over, or it breaks
\* because prime*prime > candidate, or candidate%prime is computed and the
\* loop breaks when it is 0
PrimeInner ==
    /\ primeCall.pc = "inner"
    /\ primeCall' =
           IF primeCall.idx > Len(primeCall.primes)
           THEN [primeCall EXCEPT !.pc = "after"]
           ELSE LET prime == primeCall.primes[primeCall.idx]
                IN  IF SquareExceeds(prime, primeCall.candidate)
                    THEN [primeCall EXCEPT !.pc = "after"]
                    ELSE IF primeCall.candidate % prime = 0
                    THEN [primeCall EXCEPT !.pc = "after", !.isPrime = FALSE,
                                           !.divided = Append(@, prime)]
                    ELSE [primeCall EXCEPT !.idx = @ + 1, !.divided = Append(@, prime)]
    /\ UNCHANGED randSource
    /\ PrimeFrame

\* if isPrime { primes = append(primes, candidate); lastPrime = candidate;
\* count++ }, then candidate += 2
PrimeAfter ==
    /\ primeCall.pc = "after"
    /\ primeCall' =
           IF primeCall.isPrime
           THEN [primeCall EXCEPT !.pc = "outer",
                                  !.primes = Append(@, primeCall.candidate),
                                  !.lastPrime = primeCall.candidate,
                                  !.count = @ + 1,
                                  !.candidate = @ + 2,
                                  !.iterations = @ + 1]
           ELSE [primeCall EXCEPT !.pc = "outer", !.candidate = @ + 2,
                                  !.iterations = @ + 1]
    /\ UNCHANGED randSource
    /\ PrimeFrame

\* the outer loop is over: the PrimeResult is built from count and
\* lastPrime and returned with a nil error
PrimeReturn ==
    /\ primeCall.pc = "outer"
    /\ ~(primeCall.count < primeCall.n)
    /\ primeCall' = [primeCall EXCEPT
                        !.pc = "returned",
                        !.res = [Count |-> primeCall.count, LastPrime |-> primeCall.lastPrime,
                                 RequestedRange |->
                                     RequestedRange(primeCall.wasRange, primeCall.param)],
                        !.err = Nil]
    /\ UNCHANGED randSource
    /\ PrimeFrame

PrimeLoopTexts ==
    {Itoa(n) : n \in 0..MaxPrimeN} \cup {RangeText(2, MaxRangeN + 2)}
        \cup {Invalid, Itoa(MaxPrimes + 1)}

InitPrimes ==
    /\ ParserIdle
    /\ HandlerIdle
    /\ HexIdle
    /\ RuntimeIdle
    /\ RandIdle
    /\ StepIdle
    /\ fibCall = NoFibCall
    /\ memCall = NoMemCall
    /\ primeCall \in {[NoPrimeCall EXCEPT !.pc = "called", !.param = t] : t \in PrimeLoopTexts}

NextPrimes ==
    \/ PrimeParse
    \/ PrimeOuter
    \/ PrimeInner
    \/ PrimeAfter
    \/ PrimeReturn

SpecPrimes == InitPrimes /\ [][NextPrimes]_vars

(***************************************************************************)
(* fibonacci, statement by statement: the recursion of fibonacciRecursive  *)
(* is a stack of frames, one step for each call and each return            *)
(***************************************************************************)
\* mutant: the recursion stops only at 0, so that a call for 1 goes on to -1
FibBaseCase_ZeroOnly(n) == n = 0

\* n <= 1
FibBaseCase(n) == n <= 1

\* a frame of fibonacciRecursive(n): at is "enter" before its first call,
\* "left" while fibonacciRecursive(n-1) runs and "right" while
\* fibonacciRecursive(n-2) runs; left holds the value of the first call
Frame(n) == [n |-> n, at |-> "enter", left |-> 0]

FibFrame == UNCHANGED <<parserVars, handlerVars, hexCall, runtimeVars, primeCall, memCall, stepVars>>

\* parseIntOrRange(param, MaxFibonacci, "fibonacci"), the return on its
\* error, result = n for n <= 1 and the call fibonacciRecursive(n) otherwise
FibParse ==
    /\ fibCall.pc = "called"
    /\ \E pr \in parseIntOrRangeRand(fibCall.param, MaxFibonacci) :
           /\ fibCall' =
                  IF pr.err # Nil
                  THEN [fibCall EXCEPT !.pc = "returned", !.err = pr.err]
                  ELSE IF pr.value <= 1
                  THEN [fibCall EXCEPT !.pc = "build", !.n = pr.value,
                                       !.wasRange = pr.isRange, !.value = pr.value]
                  ELSE [fibCall EXCEPT !.pc = "recurse", !.n = pr.value,
                                       !.wasRange = pr.isRange,
                                       !.stack = <<Frame(pr.value)>>, !.invocations = 1]
           /\ randSource' = randSource + pr.rand
    /\ FibFrame

\* the frame on top has just been called with n > 1: it calls
\* fibonacciRecursive(n-1)
FibDescend ==
    /\ fibCall.pc = "recurse"
    /\ ~fibCall.returning
    /\ LET top == fibCall.stack[Len(fibCall.stack)]
       IN  /\ top.at = "enter"
           /\ ~FibBaseCase(top.n)
           /\ fibCall' = [fibCall EXCEPT
                             !.stack = Append([@ EXCEPT ![Len(@)].at = "left"], Frame(top.n - 1)),
                             !.invocations = @ + 1]
    /\ UNCHANGED randSource
    /\ FibFrame

\* the frame on top has just been called with n <= 1: return n
FibBase ==
    /\ fibCall.pc = "recurse"
    /\ ~fibCall.returning
    /\ LET top == fibCall.stack[Len(fibCall.stack)]
       IN  /\ top.at = "enter"
           /\ FibBaseCase(top.n)
           /\ fibCall' = [fibCall EXCEPT
                             !.stack = SubSeq(@, 1, Len(@) - 1),
                             !.returning = TRUE, !.value = top.n]
    /\ UNCHANGED randSource
    /\ FibFrame

\* a call returned to the frame on top: after the first call the frame
\* calls fibonacciRecursive(n-2), after the second it returns the sum
FibResume ==
    /\ fibCall.pc = "recurse"
    /\ fibCall.returning
    /\ fibCall.stack # <<>>
    /\ LET top == fibCall.stack[Len(fibCall.stack)]
       IN  fibCall' =
               IF top.at = "left"
               THEN [fibCall EXCEPT
                        !.stack = Append([@ EXCEPT ![Len(@)].at = "right",
                                                   ![Len(@)].left = fibCall.value],
                                         Frame(top.n - 2)),
                        !.returning = FALSE,
                        !.invocations = @ + 1]
               ELSE [fibCall EXCEPT
                        !.stack = SubSeq(@, 1, Len(@) - 1),
                        !.value = top.left + fibCall.value]
    /\ UNCHANGED randSource
    /\ FibFrame

\* the outermost call returned to fibonacci: result = fibonacciRecursive(n)
FibUnwound ==
    /\ fibCall.pc = "recurse"
    /\ fibCall.returning
    /\ fibCall.stack = <<>>
    /\ fibCall' = [fibCall EXCEPT !.pc = "build", !.returning = FALSE]
    /\ UNCHANGED randSource
    /\ FibFrame

\* the FibonacciResult is built and returned with a nil error
FibReturn ==
    /\ fibCall.pc = "build"
    /\ fibCall' = [fibCall EXCEPT
                      !.pc = "returned",
                      !.res = [N |-> fibCall.n, Result |-> fibCall.value,
                               RequestedRange |-> RequestedRange(fibCall.wasRange, fibCall.param)],
                      !.err = Nil]
    /\ UNCHANGED randSource
    /\ FibFrame

(***************************************************************************)
(* allocateMemory, statement by statement: one step for the parse, one for *)
(* make, one for each iteration of the page-touch loop                     *)
(***************************************************************************)
\* mutant: the loop also runs for i == len(bytes)
TouchContinues_Inclusive(i, len) == i <= len

\* i < len(bytes)
TouchContinues(i, len) == i < len

\* an index expression bytes[i] panics unless 0 <= i < len(bytes)
IndexInRange(i, len) == 0 <= i /\ i < len

MemFrame == UNCHANGED <<parserVars, handlerVars, hexCall, runtimeVars, primeCall, fibCall, stepVars>>

\* parseIntOrRange(param, MaxMemoryKB, "memory"), the return on its error,
\* and the defer of the recovering function
MemParse ==
    /\ memCall.pc = "called"
    /\ \E pr \in parseIntOrRangeRand(memCall.param, MaxMemoryKB) :
           /\ memCall' =
                  IF pr.err # Nil
                  THEN [memCall EXCEPT !.pc = "returned", !.err = pr.err]
                  ELSE [memCall EXCEPT !.pc = "make", !.k = pr.value,
                                       !.wasRange = pr.isRange]
           /\ randSource' = randSource + pr.rand
    /\ MemFrame

\* bytes := make([]byte, k*1024): the slice, or a panic
MemMake ==
    /\ memCall.pc = "make"
    /\ \E a \in AllocOutcomes(memCall.k) :
           memCall' = IF a = "panic"
                      THEN [memCall EXCEPT !.pc = "recover", !.panicked = TRUE]
                      ELSE [memCall EXCEPT !.pc = "touch", !.made = TRUE,
                                           !.len = memCall.k * 1024, !.i = 0]
    /\ UNCHANGED randSource
    /\ MemFrame

\* one iteration of for i := 0; i < len(bytes); i += 4096: bytes[i] = 1
MemTouch ==
    /\ memCall.pc = "touch"
    /\ TouchContinues(memCall.i, memCall.len)
    /\ memCall' = IF IndexInRange(memCall.i, memCall.len)
                  THEN [memCall EXCEPT !.writes = Append(@, memCall.i), !.i = @ + 4096]
                  ELSE [memCall EXCEPT !.pc = "recover", !.panicked = TRUE]
    /\ UNCHANGED randSource
    /\ MemFrame

\* the loop is over: the MemoryResult is built and returned with err,
\* which is nil
MemReturn ==
    /\ memCall.pc = "touch"
    /\ ~TouchContinues(memCall.i, memCall.len)
    /\ memCall' = [memCall EXCEPT
                      !.pc = "returned",
                      !.res = [SizeKB |-> memCall.k,
                               RequestedRange |-> RequestedRange(memCall.wasRange, memCall.param)],
                      !.err = memCall.localErr]
    /\ UNCHANGED randSource
    /\ MemFrame

\* the deferred function recovers the panic and assigns the local err; the
\* function then returns what ReturnAfterRecover says
MemRecover ==
    /\ memCall.pc = "recover"
    /\ LET localErr == Errorf("memory allocation failed: %v", <<>>)
           r == ReturnAfterRecover(localErr)
       IN  memCall' = [memCall EXCEPT !.pc = "returned", !.localErr = localErr,
                                      !.res = r.res, !.err = r.err]
    /\ UNCHANGED randSource
    /\ MemFrame

TouchTexts ==
    {Itoa(k) : k \in 0..MaxTouchKB} \cup {RangeText(0, MaxRangeN)}
        \cup {Invalid, Itoa(MaxMemoryKB + 1)}

InitTouch ==
    /\ ParserIdle
    /\ HandlerIdle
    /\ HexIdle
    /\ RuntimeIdle
    /\ RandIdle
    /\ StepIdle
    /\ primeCall = NoPrimeCall
    /\ fibCall = NoFibCall
    /\ memCall \in {[NoMemCall EXCEPT !.pc = "called", !.param = t] : t \in TouchTexts}

NextTouch ==
    \/ MemParse
    \/ MemMake
    \/ MemTouch
    \/ MemReturn
    \/ MemRecover

SpecTouch == InitTouch /\ [][NextTouch]_vars

(***************************************************************************)
(* Handler specification: one request handled statement by statement.  The *)
(* handler takes the metrics, calls its operations in turn, each of which  *)
(* runs statement by statement in primeCall, fibCall, hexCall or memCall,  *)
(* and answers.  Every reading of the clock finds that no time or some     *)
(* time has passed since the reading before.                               *)
(***************************************************************************)
\* what can have passed between two readings of the clock, in nanoseconds
Elapsed == {0, ElapsedNs}

\* mutant: the microseconds are rounded up
DurationUs_RoundsUp(ns) == (ns + 999) \div 1000

\* duration.Nanoseconds() / 1000
DurationUs(ns) == ns \div 1000

\* mutant: the handler goes on to finish() after it has written the 400
AfterBadRequest_GoesOn == "finish"

\* the return that follows the 400 response
AfterBadRequest == "done"

\* the key of an operation's result in the data of a combined response
ResultKey(op) ==
    CASE op = "primes" -> "prime_result"
      [] op = "fibonacci" -> "fibonacci_result"
      [] op = "hex" -> "hex_result"
      [] op = "memory" -> "memory_result"

\* the data of the 200 response: the result itself on a single-operation
\* route, the map of the results by key on a combined route
DataOf(handler, results) ==
    IF Len(Operations(handler)) = 1
    THEN results[1].res
    ELSE [key \in {ResultKey(results[k].op) : k \in 1..Len(results)} |->
             (CHOOSE r \in {results[k] : k \in 1..Len(results)} : ResultKey(r.op) = key).res]

\* parameter texts of the requests handled statement by statement
StepTexts(ceiling) ==
    {Itoa(0), Itoa(1), Itoa(MaxStepN), RangeText(2, 3), Invalid, Itoa(ceiling + 1)}

StepHexTexts == {Itoa(0), RangeText(0, 0), Invalid}

StepRequests ==
    {[route |-> "getPrimes", params |-> [NoRequest EXCEPT !.p = p]] :
        p \in StepTexts(MaxPrimes)}
    \cup {[route |-> "getFibonacci", params |-> [NoRequest EXCEPT !.f = f]] :
        f \in StepTexts(MaxFibonacci)}
    \cup {[route |-> "getHexString", params |-> [NoRequest EXCEPT !.h = h]] :
        h \in StepHexTexts \cup {Itoa(1)}}
    \cup {[route |-> "getMemory", params |-> [NoRequest EXCEPT !.m = m]] :
        m \in StepTexts(MaxMemoryKB)}
    \cup {[route |-> "getFibonacciHex", params |-> [NoRequest EXCEPT !.f = f, !.h = h]] :
        f \in StepTexts(MaxFibonacci), h \in StepHexTexts}
    \cup {[route |-> "getPrimesHex", params |-> [NoRequest EXCEPT !.p = p, !.h = h]] :
        p \in StepTexts(MaxPrimes), h \in StepHexTexts}
    \cup {[route |-> "fibonacciHexMemory",
           params |-> [NoRequest EXCEPT !.f = f, !.h = h, !.m = m]] :
        f \in StepTexts(MaxFibonacci), h \in StepHexTexts, m \in StepTexts(MaxMemoryKB)}
    \cup {[route |-> "primesHexMemory",
           params |-> [NoRequest EXCEPT !.p = p, !.h = h, !.m = m]] :
        p \in StepTexts(MaxPrimes), h \in StepHexTexts, m \in StepTexts(MaxMemoryKB)}

InitSteps ==
    /\ ParserIdle
    /\ HandlerIdle
    /\ HexIdle
    /\ RuntimeIdle
    /\ RandIdle
    /\ GenIdle
    /\ clock = 0
    /\ tasks = <<>>
    /\ run \in {[NoRun EXCEPT !.pc = "arrived", !.route = r.route, !.params = r.params] :
                   r \in StepRequests}

\* the operation the handler calls next
NextOp == Operations(run.route)[Len(run.data) + 1]

\* the call of the operation in progress
CallOf(op) ==
    CASE op = "primes" -> primeCall
      [] op = "fibonacci" -> fibCall
      [] op = "hex" -> hexCall
      [] op = "memory" -> memCall

\* metrics := startRequestMetrics(): StartTime is the clock; the time of
\* this first reading is the origin of the clock
StepStart ==
    /\ run.pc = "arrived"
    /\ run' = [run EXCEPT !.pc = "call", !.metrics.StartTime = clock,
                          !.trace = Append(@, "startRequestMetrics")]
    /\ UNCHANGED <<parserVars, handlerVars, hexCall, runtimeVars, randSource, genVars,
                   clock, tasks>>

\* the handler calls its next operation with the path parameter, and the
\* operation function starts: start := time.Now()
StepCall ==
    /\ run.pc = "call"
    /\ LET op == NextOp
           text == run.params[Letter(op)]
       IN  /\ \E d \in Elapsed :
                  /\ clock' = clock + d
                  /\ run' = [run EXCEPT !.pc = "inOp", !.start = clock + d,
                                        !.trace = Append(@, op)]
           /\ primeCall' = IF op = "primes"
                           THEN [NoPrimeCall EXCEPT !.pc = "called", !.param = text]
                           ELSE primeCall
           /\ fibCall' = IF op = "fibonacci"
                         THEN [NoFibCall EXCEPT !.pc = "called", !.param = text]
                         ELSE fibCall
           /\ hexCall' = IF op = "hex"
                         THEN [NoHexCall EXCEPT !.pc = "called", !.param = text]
                         ELSE hexCall
           /\ memCall' = IF op = "memory"
                         THEN [NoMemCall EXCEPT !.pc = "called", !.param = text]
                         ELSE memCall
    /\ UNCHANGED <<parserVars, handlerVars, runtimeVars, randSource, tasks>>

\* the operation function returns, after duration := time.Since(start) when
\* it returns a result it built, and the handler looks at err: the 400
\* response and the return, or the next statement
StepReturn ==
    /\ run.pc = "inOp"
    /\ LET op == NextOp
           g == CallOf(op)
           timed == g.err = Nil /\ ~(op = "memory" /\ memCall.panicked)
       IN  /\ g.pc = "returned"
           /\ \E d \in (IF timed THEN Elapsed ELSE {0}) :
                  LET duration == IF timed THEN (clock + d) - run.start ELSE 0
                      result == [op |-> op,
                                 res |-> g.res @@ [DurationUs |-> DurationUs(duration)],
                                 err |-> g.err,
                                 start |-> run.start,
                                 end |-> run.start + duration]
                  IN  /\ clock' = clock + d
                      /\ run' = IF g.err # Nil
                                THEN [run EXCEPT
                                         !.pc = AfterBadRequest,
                                         !.responses = Append(@, BadRequest(Letter(op), g.err)),
                                         !.trace = Append(@, "400")]
                                ELSE [run EXCEPT
                                         !.pc = IF Len(run.data) + 1 = Len(Operations(run.route))
                                                THEN "finish" ELSE "call",
                                         !.data = Append(@, result)]
           /\ primeCall' = IF op = "primes" THEN NoPrimeCall ELSE primeCall
           /\ fibCall' = IF op = "fibonacci" THEN NoFibCall ELSE fibCall
           /\ hexCall' = IF op = "hex" THEN NoHexCall ELSE hexCall
           /\ memCall' = IF op = "memory" THEN NoMemCall ELSE memCall
    /\ UNCHANGED <<parserVars, handlerVars, runtimeVars, randSource, tasks>>

\* metrics.finish(): EndTime is the clock, DurationUs the microseconds
\* between StartTime and EndTime
StepFinish ==
    /\ run.pc = "finish"
    /\ \E d \in Elapsed :
           /\ clock' = clock + d
           /\ run' = [run EXCEPT
                         !.pc = "respond",
                         !.metrics = [@ EXCEPT
                                         !.EndTime = clock + d,
                                         !.DurationUs = DurationUs((clock + d) - run.metrics.StartTime),
                                         !.finishCalls = @ + 1],
                         !.trace = Append(@, "finish")]
    /\ UNCHANGED <<parserVars, handlerVars, hexCall, runtimeVars, randSource, genVars, tasks>>

\* c.IndentedJSON(http.StatusOK, gin.H{"data": ..., "request_metrics": metrics})
StepRespond ==
    /\ run.pc = "respond"
    /\ run' = [run EXCEPT
                  !.pc = "done",
                  !.responses = Append(@, OK(DataOf(run.route, run.data), run.metrics)),
                  !.trace = Append(@, "200")]
    /\ UNCHANGED <<parserVars, handlerVars, hexCall, runtimeVars, randSource, genVars,
                   clock, tasks>>

NextSteps ==
    \/ StepStart
    \/ StepCall
    \/ StepReturn
    \/ StepFinish
    \/ StepRespond
    \/ PrimeParse
    \/ PrimeOuter
    \/ PrimeInner
    \/ PrimeAfter
    \/ PrimeReturn
    \/ FibParse
    \/ FibDescend
    \/ FibBase
    \/ FibResume
    \/ FibUnwound
    \/ FibReturn
    \/ HexParse
    \/ HexFill
    \/ HexReturn
    \/ MemParse
    \/ MemMake
    \/ MemTouch
    \/ MemReturn
    \/ MemRecover

SpecSteps == InitSteps /\ [][NextSteps]_vars

\* the requests whose termination is checked: every text on the routes of
\* one operation, a filled hexadecimal string, and the routes of three
\* operations with their loops entered
LiveRequests ==
    {r \in StepRequests :
        \/ Len(Operations(r.route)) = 1
        \/ /\ Len(Operations(r.route)) = 3
           /\ r.params.h = Itoa(0)
           /\ r.params.p \in {NoRequest.p, Itoa(MaxStepN), RangeText(2, 3)}
           /\ r.params.f \in {NoRequest.f, Itoa(MaxStepN), RangeText(2, 3)}}

InitLive ==
    /\ ParserIdle
    /\ HandlerIdle
    /\ HexIdle
    /\ RuntimeIdle
    /\ RandIdle
    /\ GenIdle
    /\ clock = 0
    /\ tasks = <<>>
    /\ run \in {[NoRun EXCEPT !.pc = "arrived", !.route = r.route, !.params = r.params] :
                   r \in LiveRequests}

\* the scheduler does not stop a goroutine that can run
SpecLive == InitLive /\ [][NextSteps]_vars /\ WF_vars(NextSteps)

(***************************************************************************)
(* Concurrent specification: the router runs each request's handler in a   *)
(* goroutine of its own.  A handler's steps are the reading of the         *)
(* counters in startRequestMetrics, the parseIntOrRange call of each       *)
(* operation function, the body of the operation function with the         *)
(* handler's look at err, and finish() with the 200 response.  The steps   *)
(* of the handlers interleave in any order.  The random source and the     *)
(* runtime counters belong to the process; everything else is a variable   *)
(* of one invocation.                                                      *)
(***************************************************************************)
TaskIds == 1..MaxTasks

\* mutant: the handlers keep metrics, results and err in package-level
\* variables
FrameOf_Shared(i) == 1

\* metrics, the results and err are declared inside the handler: they live
\* in the frame of invocation i
FrameOf(i) == i

\* the operation function of an operation, called with a text
OperationFunction(op, text) ==
    CASE op = "primes" -> generatePrimes(text)
      [] op = "fibonacci" -> fibonacci(text)
      [] op = "hex" -> createHexString(text)
      [] op = "memory" -> allocateMemory(text)

NoParse == [value |-> 0, isRange |-> FALSE, err |-> Nil, rand |-> 0]

\* a request the router has accepted and not started yet
NoTask(r) ==
    [pc |-> "waiting", route |-> r.route, params |-> r.params, at |-> 1,
     parsed |-> NoParse, env |-> <<>>,
     metrics |-> [GoroutinesBefore |-> 0, GoroutinesAfter |-> 0],
     res |-> [primes |-> ZeroPrimeResult, fibonacci |-> ZeroFibonacciResult,
              hex |-> ZeroHexResult, memory |-> ZeroMemoryResult],
     err |-> Nil, response |-> NoResponse]

\* the requests handled concurrently
ConcurrentRequests ==
    {[route |-> "getPrimes", params |-> [NoRequest EXCEPT !.p = RangeText(2, 3)]]}
    \cup {[route |-> "getFibonacci", params |-> [NoRequest EXCEPT !.f = Invalid]]}
    \cup {[route |-> "getFibonacciHex",
           params |-> [NoRequest EXCEPT !.f = Itoa(4), !.h = RangeText(0, 1)]]}
    \cup {[route |-> "getMemory", params |-> [NoRequest EXCEPT !.m = Itoa(1)]]}

InitConcurrent ==
    /\ ParserIdle
    /\ HandlerIdle
    /\ HexIdle
    /\ RuntimeIdle
    /\ RandIdle
    /\ GenIdle
    /\ clock = 0
    /\ run = NoRun
    /\ tasks \in [TaskIds -> {NoTask(r) : r \in ConcurrentRequests}]

\* the operation invocation i is at
TaskOp(i) == Operations(tasks[i].route)[tasks[i].at]

\* the results in the handler's variables, in the order of the operations
TaskResults(i) ==
    LET ops == Operations(tasks[i].route)
    IN  [k \in 1..Len(ops) |-> [op |-> ops[k], res |-> tasks[FrameOf(i)].res[ops[k]]]]

ConcurrentFrame ==
    UNCHANGED <<parserVars, handlerVars, hexCall, memStatsAlloc, requests, genVars,
                clock, run>>

\* the server starts the goroutine that will run the handler
TaskArrive(i) ==
    /\ tasks[i].pc = "waiting"
    /\ numGoroutine' = numGoroutine + 1
    /\ tasks' = [tasks EXCEPT ![i].pc = "arrived"]
    /\ UNCHANGED randSource
    /\ ConcurrentFrame

\* metrics := startRequestMetrics(): GoroutinesBefore is runtime.NumGoroutine()
TaskStart(i) ==
    /\ tasks[i].pc = "arrived"
    /\ tasks' = [tasks EXCEPT ![FrameOf(i)].metrics.GoroutinesBefore = numGoroutine,
                              ![i].pc = "parse"]
    /\ UNCHANGED <<randSource, numGoroutine>>
    /\ ConcurrentFrame

\* the handler calls the next operation function, which calls
\* parseIntOrRange: a range takes its value from the random source
TaskParse(i) ==
    /\ tasks[i].pc = "parse"
    /\ \E pr \in parseIntOrRangeRand(tasks[i].params[Letter(TaskOp(i))], CeilingOf(TaskOp(i))) :
           /\ tasks' = [tasks EXCEPT
                           ![i].parsed = pr,
                           ![i].env = Append(@, [size |-> pr.value, panicked |-> FALSE]),
                           ![i].pc = "run"]
           /\ randSource' = randSource + pr.rand
    /\ UNCHANGED numGoroutine
    /\ ConcurrentFrame

\* the rest of the operation function and the handler's look at what it
\* returned: result, err := ...; if err != nil the 400 response and the
\* return
TaskRun(i) ==
    /\ tasks[i].pc = "run"
    /\ LET op == TaskOp(i)
           text == tasks[i].params[Letter(op)]
       IN  \E o \in {x \in OperationFunction(op, text) :
                        x.log[1] = Parsed(op, tasks[i].parsed)} :
               /\ tasks' = [tasks EXCEPT
                               ![FrameOf(i)].res[op] = o.res,
                               ![FrameOf(i)].err = o.err,
                               ![i].env[tasks[i].at].panicked =
                                   \E k \in 1..Len(o.log) : o.log[k].ev = "recover",
                               ![i].response =
                                   IF o.err # Nil THEN BadRequest(Letter(op), o.err) ELSE @,
                               ![i].pc =
                                   IF o.err # Nil THEN "done"
                                   ELSE IF tasks[i].at = Len(Operations(tasks[i].route))
                                   THEN "finish" ELSE "parse",
                               ![i].at = IF o.err = Nil /\ @ < Len(Operations(tasks[i].route))
                                         THEN @ + 1 ELSE @]
               /\ randSource' = randSource + Draws(o.log) - tasks[i].parsed.rand
    /\ UNCHANGED numGoroutine
    /\ ConcurrentFrame

\* metrics.finish(): GoroutinesAfter is runtime.NumGoroutine(); then the 200
\* response with the results and the metrics
TaskRespond(i) ==
    /\ tasks[i].pc = "finish"
    /\ LET rm == [tasks[FrameOf(i)].metrics EXCEPT !.GoroutinesAfter = numGoroutine]
       IN  tasks' = [tasks EXCEPT
                        ![FrameOf(i)].metrics = rm,
                        ![i].response = OK(DataOf(tasks[i].route, TaskResults(i)), rm),
                        ![i].pc = "done"]
    /\ UNCHANGED <<randSource, numGoroutine>>
    /\ ConcurrentFrame

NextConcurrent ==
    \E i \in TaskIds :
        \/ TaskArrive(i)
        \/ TaskStart(i)
        \/ TaskParse(i)
        \/ TaskRun(i)
        \/ TaskRespond(i)

SpecConcurrent == InitConcurrent /\ [][NextConcurrent]_vars

(***************************************************************************)
(* Metrics specification: one request from startRequestMetrics to the      *)
(* response, in its own goroutine, while the other requests the router     *)
(* serves concurrently and the garbage collector change the process-wide   *)
(* counters that startRequestMetrics and finish read.  The time fields of  *)
(* RequestMetrics are not kept.                                            *)
(***************************************************************************)
\* what the runtime answered to the calls of the request
NoReads == [allocStart |-> 0, goroutinesStart |-> 0, allocFinish |-> 0, goroutinesFinish |-> 0]

\* RequestMetrics{}
ZeroRequestMetrics == [MemoryUsedBytes |-> 0, GoroutinesBefore |-> 0, GoroutinesAfter |-> 0]

\* the request has not arrived
Waiting ==
    [pc |-> "waiting", memStats |-> 0, rm |-> ZeroRequestMetrics, reads |-> NoReads,
     allocated |-> 0, status |-> 0, reported |-> ZeroRequestMetrics]

\* startRequestMetrics(), from the memStats it has read and the count
\* runtime.NumGoroutine() answers
startRequestMetricsAt(alloc, goroutines) ==
    [MemoryUsedBytes |-> alloc, GoroutinesBefore |-> goroutines, GoroutinesAfter |-> 0]

\* mutant: the snapshot taken at the start is not subtracted
finishAt_KeepsCounter(rm, memoryAfter, goroutines) ==
    [rm EXCEPT !.GoroutinesAfter = goroutines, !.MemoryUsedBytes = memoryAfter]

\* rm.finish(), from the memStats it has read and the count
\* runtime.NumGoroutine() answers
finishAt(rm, memoryAfter, goroutines) ==
    [rm EXCEPT !.GoroutinesAfter = goroutines,
               !.MemoryUsedBytes = memoryAfter - rm.MemoryUsedBytes]

InitMetrics ==
    /\ ParserIdle
    /\ HandlerIdle
    /\ HexIdle
    /\ RandIdle
    /\ GenIdle
    /\ StepIdle
    /\ memStatsAlloc \in 0..MaxAlloc
    /\ numGoroutine = 1
    /\ requests = Waiting

\* goroutines serving this request
Serving == IF requests.pc \in {"waiting", "gone"} THEN 0 ELSE 1

\* the server accepts the request and starts the goroutine that serves it
Arrive ==
    /\ requests.pc = "waiting"
    /\ numGoroutine < MaxGoroutines
    /\ numGoroutine' = numGoroutine + 1
    /\ requests' = [requests EXCEPT !.pc = "start"]
    /\ UNCHANGED <<parserVars, handlerVars, hexCall, memStatsAlloc, randSource, genVars, stepVars>>

\* startRequestMetrics: runtime.ReadMemStats(&memStats)
StartReadMemStats ==
    /\ requests.pc = "start"
    /\ requests' = [requests EXCEPT !.pc = "startBuild",
                                    !.memStats = memStatsAlloc,
                                    !.reads.allocStart = memStatsAlloc]
    /\ UNCHANGED <<parserVars, handlerVars, hexCall, memStatsAlloc, numGoroutine, randSource, genVars, stepVars>>

\* startRequestMetrics: the RequestMetrics is built and returned
StartBuild ==
    /\ requests.pc = "startBuild"
    /\ requests' = [requests EXCEPT
                       !.pc = "operate",
                       !.rm = startRequestMetricsAt(requests.memStats, numGoroutine),
                       !.reads.goroutinesStart = numGoroutine]
    /\ UNCHANGED <<parserVars, handlerVars, hexCall, memStatsAlloc, numGoroutine, randSource, genVars, stepVars>>

\* the handler's operations: they allocate some bytes on the heap and
\* return an error or not
Operate ==
    /\ requests.pc = "operate"
    /\ \E a \in 0..1, failed \in BOOLEAN :
           /\ memStatsAlloc + a <= MaxAlloc
           /\ memStatsAlloc' = memStatsAlloc + a
           /\ requests' = [requests EXCEPT
                              !.pc = IF failed THEN "reject" ELSE "finish",
                              !.allocated = a]
    /\ UNCHANGED <<parserVars, handlerVars, hexCall, numGoroutine, randSource, genVars, stepVars>>

\* if err != nil: the 400 response is written and the handler returns
\* without calling finish
Reject ==
    /\ requests.pc = "reject"
    /\ requests' = [requests EXCEPT !.pc = "done", !.status = StatusBadRequest]
    /\ UNCHANGED <<parserVars, handlerVars, hexCall, memStatsAlloc, numGoroutine, randSource, genVars, stepVars>>

\* finish: runtime.ReadMemStats(&memStats)
FinishReadMemStats ==
    /\ requests.pc = "finish"
    /\ requests' = [requests EXCEPT !.pc = "finishCompute",
                                    !.memStats = memStatsAlloc,
                                    !.reads.allocFinish = memStatsAlloc]
    /\ UNCHANGED <<parserVars, handlerVars, hexCall, memStatsAlloc, numGoroutine, randSource, genVars, stepVars>>

\* finish: GoroutinesAfter and MemoryUsedBytes are assigned
FinishCompute ==
    /\ requests.pc = "finishCompute"
    /\ requests' = [requests EXCEPT
                       !.pc = "respond",
                       !.rm = finishAt(requests.rm, requests.memStats, numGoroutine),
                       !.reads.goroutinesFinish = numGoroutine]
    /\ UNCHANGED <<parserVars, handlerVars, hexCall, memStatsAlloc, numGoroutine, randSource, genVars, stepVars>>

\* the 200 response is written with the request's metrics
Respond ==
    /\ requests.pc = "respond"
    /\ requests' = [requests EXCEPT !.pc = "done", !.status = StatusOK,
                                    !.reported = requests.rm]
    /\ UNCHANGED <<parserVars, handlerVars, hexCall, memStatsAlloc, numGoroutine, randSource, genVars, stepVars>>

\* the connection is closed and the goroutine that served the request ends
Depart ==
    /\ requests.pc = "done"
    /\ numGoroutine' = numGoroutine - 1
    /\ requests' = [requests EXCEPT !.pc = "gone"]
    /\ UNCHANGED <<parserVars, handlerVars, hexCall, memStatsAlloc, randSource, genVars, stepVars>>

\* another request arrives: the server starts a goroutine for it
OtherArrive ==
    /\ numGoroutine < MaxGoroutines
    /\ numGoroutine' = numGoroutine + 1
    /\ UNCHANGED <<parserVars, handlerVars, hexCall, memStatsAlloc, requests, randSource, genVars, stepVars>>

\* the operations of another request allocate on the heap
OtherOperate ==
    /\ numGoroutine > 1 + Serving
    /\ memStatsAlloc < MaxAlloc
    /\ memStatsAlloc' = memStatsAlloc + 1
    /\ UNCHANGED <<parserVars, handlerVars, hexCall, numGoroutine, requests, randSource, genVars, stepVars>>

\* another request is over and its goroutine ends
OtherDepart ==
    /\ numGoroutine > 1 + Serving
    /\ numGoroutine' = numGoroutine - 1
    /\ UNCHANGED <<parserVars, handlerVars, hexCall, memStatsAlloc, requests, randSource, genVars, stepVars>>

\* the garbage collector frees unreachable objects
Collect ==
    /\ \E freed \in 1..memStatsAlloc : memStatsAlloc' = memStatsAlloc - freed
    /\ UNCHANGED <<parserVars, handlerVars, hexCall, numGoroutine, requests, randSource, genVars, stepVars>>

NextMetrics ==
    \/ Arrive
    \/ StartReadMemStats
    \/ StartBuild
    \/ Operate
    \/ Reject
    \/ FinishReadMemStats
    \/ FinishCompute
    \/ Respond
    \/ Depart
    \/ OtherArrive
    \/ OtherOperate
    \/ OtherDepart
    \/ Collect

SpecMetrics == InitMetrics /\ [][NextMetrics]_vars

(***************************************************************************)
(* Properties of the handlers, checked under Spec                          *)
(***************************************************************************)
\* the text passes validation against the ceiling
Valid(text, ceiling) == \A r \in parseIntOrRange(text, ceiling) : r.err = Nil

RunEvents == {i \in 1..Len(log) : log[i].ev = "run"}

AllocationFailed == \E i \in 1..Len(log) : log[i].ev = "recover"

\* C1: in every multi-operation handler no generator starts executing
\* until all parameters of the request have been parsed and validated; in
\* particular a request with a valid first and an invalid second parameter
\* never runs the first parameter's generator.
C1_NoGeneratorBeforeAllValidated ==
    route \in MultiHandlers =>
        \A i \in RunEvents :
            \A k \in 1..Len(Operations(route)) :
                \E j \in 1..(i - 1) :
                    /\ log[j].ev = "parse"
                    /\ log[j].op = Operations(route)[k]
                    /\ log[j].ok

\* C2: in every multi-operation request the parameters are checked left
\* to right; the first one that fails aborts the request with HTTP 400
\* and a message naming it, even when later parameters are invalid too,
\* and no generator of that or of any later parameter runs.
C2_FirstInvalidParameterAborts ==
    route \in MultiHandlers =>
        LET ops == Operations(route)
            text(k) == params[Letter(ops[k])]
            valid(k) == Valid(text(k), CeilingOf(ops[k]))
        IN  \A k \in 1..Len(ops) :
                (~valid(k) /\ \A j \in 1..(k - 1) : valid(j)) =>
                    /\ response.status = StatusBadRequest
                    /\ response.message.name = Letter(ops[k])
                    /\ response.message.err \in
                           {r.err : r \in parseIntOrRange(text(k), CeilingOf(ops[k]))}
                    /\ \A i \in RunEvents :
                           \E j \in 1..(k - 1) : log[i].op = ops[j]

\* a three-operation request whose second and third parameters are both
\* invalid was answered for the second
C2_Witness ==
    /\ route = "primesHexMemory"
    /\ params.p = Itoa(5)
    /\ params.h = Invalid
    /\ params.m = Invalid
    /\ response.status = StatusBadRequest
    /\ response.message.name = "h"
    /\ RunEvents = {2}

\* C3: on every route, whenever a generator body executes (prime loop,
\* recursive Fibonacci, hex fill, memory allocation) its size satisfies
\* 0 <= size <= the ceiling of its parameter.
C3_GeneratorSizeWithinCeiling ==
    \A i \in RunEvents :
        /\ 0 <= log[i].size
        /\ log[i].size <= CeilingOf(log[i].op)

\* the hex fill and the allocation both ran at their ceilings, after a
\* prime loop sized by a range
C3_Witness ==
    /\ route = "primesHexMemory"
    /\ params.p = RangeText(3, 7)
    /\ \E i \in RunEvents : log[i] = Ran("primes", 7)
    /\ \E i \in RunEvents : log[i] = Ran("hex", MaxHexKB)
    /\ \E i \in RunEvents : log[i] = Ran("memory", MaxMemoryKB)

\* C4: when the allocation inside allocateMemory panics, the panic is
\* trapped and allocateMemory returns a non-nil error to its caller, never
\* a nil error together with a result.
C4_AllocationFailureReturnsError ==
    AllocationFailed => calls[Len(calls)].err # Nil

\* C5: on every route with the memory operation an allocation failure is
\* answered with HTTP 500, while a parse, range or bounds failure of m is
\* answered with HTTP 400.
C5_AllocationFailureIs500 ==
    /\ AllocationFailed => response.status = StatusInternalServerError
    /\ (\E i \in 1..Len(log) : log[i].ev = "parse" /\ log[i].op = "memory" /\ ~log[i].ok)
           => response.status = StatusBadRequest

SingleHandlers == {"getMemory", "getFibonacci", "getPrimes", "getHexString"}

\* the parse events of the log
ParseEvents == {i \in 1..Len(log) : log[i].ev = "parse"}

\* C17: every HTTP 200 response of every workload endpoint contains a data
\* object and a request_metrics object, and those request metrics were
\* completed by finish() before the response was written.
C17_SuccessEnvelopeComplete ==
    response.status = StatusOK =>
        /\ route \in SingleHandlers \cup MultiHandlers
        /\ "data" \in DOMAIN response
        /\ "request_metrics" \in DOMAIN response
        /\ response.request_metrics.finished
        /\ response.request_metrics = metrics

\* a three-operation request was answered 200 with its three results and
\* finished metrics
C17_Witness ==
    /\ route = "fibonacciHexMemory"
    /\ response.status = StatusOK
    /\ response.data.fibonacci_result.N = 5
    /\ response.data.hex_result.Length = 1024
    /\ response.data.memory_result.SizeKB = 10
    /\ response.request_metrics.finished

\* the text is not a range and strconv.Atoi does not parse it
NonNumeric(text) == ~Contains(text, Sep) /\ ~Atoi(text).ok

\* C18: on every single-parameter endpoint a non-numeric parameter such
\* as "invalid" is answered with HTTP 400 and a message "<param letter>:
\* <reason>" whose reason is the "invalid number" error, and no generator
\* runs.
C18_NonNumericIsBadRequest ==
    (route \in SingleHandlers /\ NonNumeric(params[Letter(Operations(route)[1])])) =>
        /\ response.status = StatusBadRequest
        /\ response.message.name = Letter(Operations(route)[1])
        /\ response.message.err.fmt = "invalid number: %v"
        /\ Head(response.message.err.arg) = "invalid syntax"
        /\ RunEvents = {}

\* /hex/invalid was answered 400, "h: invalid number: ..."
C18_Witness ==
    /\ route = "getHexString"
    /\ params.h = Invalid
    /\ response.status = StatusBadRequest
    /\ response.message.name = "h"
    /\ response.message.err.fmt = "invalid number: %v"
    /\ RunEvents = {}

\* the ceilings by parameter: p <= 10,000, f <= 45, h <= 10,000 KB,
\* m <= 1,000,000 KB
DocumentedCeiling(letter) ==
    CASE letter = "p" -> 10000
      [] letter = "f" -> 45
      [] letter = "h" -> 10000
      [] letter = "m" -> 1000000

\* C20: every route enforces the same ceilings, p <= 10,000, f <= 45,
\* h <= 10,000 KB and m <= 1,000,000 KB, on bare values and on both bounds
\* of a range, on single and on combined endpoints: a parameter is
\* accepted exactly if it is valid for the ceiling of its letter, a
\* request with a value one above a ceiling (bare or as the upper bound of
\* a range) is answered with HTTP 400, and a value equal to the ceiling
\* is accepted.
C20_SameCeilingsOnEveryRoute ==
    /\ \A i \in ParseEvents :
           LET letter == Letter(log[i].op)
               c == DocumentedCeiling(letter)
           IN  /\ log[i].ok <=> Valid(params[letter], c)
               /\ log[i].ok => (0 <= log[i].size /\ log[i].size <= c)
               /\ params[letter] = Itoa(c) => (log[i].ok /\ log[i].size = c)
    /\ \A letter \in {"p", "f", "h", "m"} :
           params[letter] \in {Itoa(DocumentedCeiling(letter) + 1),
                               RangeText(DocumentedCeiling(letter),
                                         DocumentedCeiling(letter) + 1)} =>
               response.status = StatusBadRequest
    /\ \A op \in {"primes", "fibonacci", "hex", "memory"} :
           /\ CeilingOf(op) = DocumentedCeiling(Letter(op))
           /\ Valid(Itoa(DocumentedCeiling(Letter(op))), CeilingOf(op))
           /\ ~Valid(Itoa(DocumentedCeiling(Letter(op)) + 1), CeilingOf(op))

\* a combined request with h and m at their ceilings was answered 200
C20_Witness ==
    /\ route = "primesHexMemory"
    /\ params.h = Itoa(10000)
    /\ params.m = Itoa(1000000)
    /\ response.status = StatusOK
    /\ response.data.hex_result.SizeKB = 10000
    /\ response.data.memory_result.SizeKB = 1000000

(***************************************************************************)
(* Properties of parseIntOrRange, checked under SpecParse                  *)
(***************************************************************************)
Returned == ret # Pending

\* C6: for every ceiling C and every integer N with 0 <= N <= C,
\* parseIntOrRange on the decimal text of N returns value N, isRange false
\* and no error.
C6_BareValueParsed ==
    Returned =>
        \A N \in 0..maxValue :
            param = Itoa(N) => ret = [value |-> N, isRange |-> FALSE, err |-> Nil]

\* the ceiling itself, as a bare value, has been parsed
C6_Witness ==
    /\ Returned
    /\ maxValue = MaxCeil
    /\ param = Itoa(MaxCeil)
    /\ ret.value = MaxCeil

\* C7: for every 0 <= min <= max <= ceiling, parsing "min..max" succeeds
\* with isRange true and a value in [min, max] whatever the random source
\* returns; before the call both min and max are among the values the call
\* can return; when min = max the value is min.
C7_RangeSampledWithinBounds ==
    Contains(param, Sep) =>
        \A a \in 0..maxValue : \A b \in a..maxValue :
            (param = RangeText(a, b)) =>
                /\ Returned => (ret.err = Nil /\ ret.isRange /\ a <= ret.value /\ ret.value <= b)
                /\ ~Returned =>
                       LET values == {r.value : r \in parseIntOrRange(param, maxValue)}
                       IN  a \in values /\ b \in values

\* the widest range was parsed and the draw was its upper endpoint
C7_Witness ==
    /\ Returned
    /\ maxValue = MaxCeil
    /\ param = RangeText(0, MaxCeil)
    /\ ret.isRange
    /\ ret.value = MaxCeil

\* C8: for a bare value, the ceiling is accepted, ceiling+1 is rejected
\* with an error, every negative value is rejected with an error, and 0 is
\* accepted.
C8_BareBoundaries ==
    Returned =>
        /\ param = Itoa(maxValue) => (ret.err = Nil /\ ret.value = maxValue)
        /\ param = Itoa(maxValue + 1) => ret.err # Nil
        /\ (Atoi(param).ok /\ Atoi(param).val < 0) => ret.err # Nil
        /\ param = Itoa(0) => (ret.err = Nil /\ ret.value = 0)

\* one above the ceiling was rejected as out of range
C8_Witness ==
    /\ Returned
    /\ maxValue = MaxCeil
    /\ param = Itoa(MaxCeil + 1)
    /\ ret.err = Errorf("number out of range (0-%d)", Itoa(MaxCeil))

\* C9: a range "a..b" is accepted only if a and b are integers with
\* 0 <= a <= b <= ceiling; in every other case (a or b not an integer,
\* negative, a > b, a or b above the ceiling) the call returns an error
\* with value 0 and isRange false.
C9_RangeRejected ==
    (Returned /\ Contains(param, Sep)) =>
        LET parts == Split(param, Sep)
            a == Atoi(TrimSpace(parts[1]))
            b == Atoi(TrimSpace(parts[2]))
        IN  /\ ret.err = Nil =>
                /\ Len(parts) = 2
                /\ a.ok /\ b.ok
                /\ 0 <= a.val /\ a.val <= b.val /\ b.val <= maxValue
            /\ ret.err # Nil => (ret.value = 0 /\ ~ret.isRange)
            /\ \A x \in Numbers : \A y \in Numbers :
                   param = RangeText(x, y) =>
                       (ret.err = Nil <=> (0 <= x /\ x <= y /\ y <= maxValue))

\* a range whose upper bound is one above the ceiling was rejected
C9_Witness ==
    /\ Returned
    /\ maxValue = MaxCeil
    /\ param = RangeText(MaxCeil, MaxCeil + 1)
    /\ ret = [value |-> 0, isRange |-> FALSE,
              err |-> Errorf("values must be within range (0-%d)", Itoa(MaxCeil))]

\* number of separators in s, read left to right without overlap
RECURSIVE SepCount(_)
SepCount(s) ==
    IF Len(s) < 2 THEN 0
    ELSE IF SubSeq(s, 1, 2) = Sep THEN 1 + SepCount(SubSeq(s, 3, Len(s)))
    ELSE SepCount(Tail(s))

\* C10: a parameter is treated as a range only if it contains exactly one
\* separator ".."; with two or more separators it is rejected with the
\* range-format error; with no separator it is parsed as a bare integer
\* and rejected if it is not one.
C10_SeparatorCount ==
    Returned =>
        /\ ret.isRange => SepCount(param) = 1
        /\ SepCount(param) >= 2 =>
               ret = [value |-> 0, isRange |-> FALSE,
                      err |-> Errorf("invalid range format, use min..max", <<>>)]
        /\ SepCount(param) = 0 =>
               /\ ~ret.isRange
               /\ ret.err = Nil => (Atoi(param).ok /\ ret.value = Atoi(param).val)
               /\ ~Atoi(param).ok => ret.err = Errorf("invalid number: %v", Atoi(param).err)

\* a text of three well-formed segments was rejected for its format
C10_Witness ==
    /\ Returned
    /\ param = RangeText(0, 1) \o Sep \o Itoa(1)
    /\ ret.err = Errorf("invalid range format, use min..max", <<>>)

\* the constraints of the parser a text violates, against a ceiling; a
\* token is non-numeric when strconv.Atoi does not parse it
Violations(text, ceiling) ==
    IF Contains(text, Sep)
    THEN LET parts == Split(text, Sep)
         IN  IF Len(parts) # 2 THEN {"malformed range"}
             ELSE LET a == Atoi(TrimSpace(parts[1]))
                      b == Atoi(TrimSpace(parts[2]))
                      numbers == {t.val : t \in {t \in {a, b} : t.ok}}
                  IN  (IF ~a.ok \/ ~b.ok THEN {"non-numeric token"} ELSE {})
                          \cup (IF \E n \in numbers : n < 0 THEN {"negative value"} ELSE {})
                          \cup (IF a.ok /\ b.ok /\ a.val > b.val THEN {"min > max"} ELSE {})
                          \cup (IF \E n \in numbers : n > ceiling
                                THEN {"exceeds ceiling"} ELSE {})
    ELSE LET v == Atoi(text)
         IN  IF ~v.ok THEN {"non-numeric token"}
             ELSE (IF v.val < 0 THEN {"negative value"} ELSE {})
                      \cup (IF v.val > ceiling THEN {"exceeds ceiling"} ELSE {})

\* one text for each failure condition, bare and as a range
FailingTexts(ceiling) ==
    { <<"x">>, Itoa(0 - 1), Itoa(ceiling + 1),
      <<"x">> \o Sep \o Itoa(0), Itoa(0) \o Sep \o <<"x">>,
      RangeText(0 - 1, 0), RangeText(1, 0), RangeText(0, ceiling + 1),
      RangeText(0, 0) \o Sep \o Itoa(0) }

\* a text violates a constraint exactly if the call returns an error
FailureIsReported ==
    Returned => (Violations(param, maxValue) # {} <=> ret.err # Nil)

\* for each ceiling, what the call returns for the texts of FailingTexts
\* that violate one constraint only: the text, that constraint and the
\* format of the error
SingleFailures ==
    [c \in Ceilings |->
        UNION {{[text |-> q, violation |-> Violations(q, c), fmt |-> r.err.fmt] :
                   r \in parseIntOrRange(q, c)} :
               q \in {t \in FailingTexts(c) : Cardinality(Violations(t, c)) = 1}}]

\* the texts of FailingTexts that violate one constraint only, another
\* one than param, and whose error is nevertheless the error returned
SameErrorOtherCondition ==
    IF Returned /\ ret.err # Nil
    THEN LET violated == Violations(param, maxValue)
         IN  IF Cardinality(violated) = 1
             THEN {f.text : f \in {f \in SingleFailures[maxValue] :
                                      f.violation # violated /\ f.fmt = ret.err.fmt}}
             ELSE {}
    ELSE {}

\* C19 (as stated): each failure condition of the parser (non-numeric
\* token, negative value, min > max, a bound or value above the ceiling,
\* malformed range) produces an error, and that error differs from the
\* errors of the other conditions, for bare values as well as for ranges.
C19_DistinctErrors ==
    /\ FailureIsReported
    /\ SameErrorOtherCondition = {}

\* C19 (amended): each failure condition produces an error, and that
\* error differs from the errors of the other conditions, except that a
\* bare value has one error, "number out of range (0-ceiling)", for
\* being negative and for exceeding the ceiling.
C19_DistinctErrorsButBareBounds ==
    /\ FailureIsReported
    /\ \A q \in SameErrorOtherCondition :
           /\ ~Contains(q, Sep) /\ ~Contains(param, Sep)
           /\ Violations(q, maxValue) \cup Violations(param, maxValue)
                  = {"negative value", "exceeds ceiling"}
           /\ ret.err = Errorf("number out of range (0-%d)", Itoa(maxValue))

\* a negative bare value was rejected with the error that the value above
\* the ceiling gets, while the negative range has an error of its own
C19_Witness ==
    /\ Returned
    /\ param = Itoa(0 - 1)
    /\ ret.err = Errorf("number out of range (0-%d)", Itoa(maxValue))
    /\ Itoa(maxValue + 1) \in SameErrorOtherCondition
    /\ RangeText(0 - 1, 0) \notin SameErrorOtherCondition

(***************************************************************************)
(* Properties of the operation functions, checked under SpecCall           *)
(***************************************************************************)
CallReturned == calls # <<>>

\* the operation that was called, and the text it was called with
CalledOp == log[1].op

CalledText == params[Letter(CalledOp)]

\* the size the parser resolved the text to
ResolvedSize == log[1].size

\* C11: for each of the four operations, a result returned without error
\* carries RequestedRange equal to the parameter text when the parameter
\* was a range and empty when it was a bare integer, on every return path
\* (the n = 0 and n = 1 early returns of generatePrimes included).
C11_RequestedRangeEchoesRange ==
    (CallReturned /\ calls[1].err = Nil) =>
        calls[1].res.RequestedRange =
            (IF Contains(CalledText, Sep) THEN CalledText ELSE <<>>)

IsPrime(q) == q >= 2 /\ \A d \in 2..(q - 1) : q % d # 0

\* the primes up to n*n + 2, which include the first n primes
PrimesUpTo(n) == {q \in 2..(n * n + 2) : IsPrime(q)}

\* the n-th prime in ascending order, 0 for n = 0: the prime with exactly
\* n primes up to and including itself
NthPrime(n) ==
    IF n = 0 THEN 0
    ELSE CHOOSE q \in PrimesUpTo(n) : Cardinality({r \in PrimesUpTo(n) : r <= q}) = n

\* C12: generatePrimes returns Count = n and LastPrime = the n-th prime
\* (2, 3, 5, 7, 11, ...) for every resolved n of the bounded set; Count 0
\* and LastPrime 0 for n = 0, LastPrime 2 for n = 1, LastPrime 11 for n = 5.
C12_PrimesCountAndLast ==
    (CallReturned /\ CalledOp = "primes" /\ calls[1].err = Nil) =>
        LET r == calls[1].res
        IN  /\ r.Count = ResolvedSize
            /\ r.LastPrime = NthPrime(ResolvedSize)
            /\ \A n \in 0..MaxPrimeN : CalledText = Itoa(n) => r.Count = n
            /\ CalledText = Itoa(0) => (r.Count = 0 /\ r.LastPrime = 0)
            /\ CalledText = Itoa(1) => (r.Count = 1 /\ r.LastPrime = 2)
            /\ CalledText = Itoa(5) => (r.Count = 5 /\ r.LastPrime = 11)

\* the largest count of the bounded set was generated
C12_Witness ==
    /\ CallReturned
    /\ params.p = Itoa(MaxPrimeN)
    /\ calls[1].res.Count = MaxPrimeN
    /\ calls[1].res.LastPrime = NthPrime(MaxPrimeN)
    /\ calls[1].res.LastPrime > 11

\* F(n) by forward iteration from F(0) = 0, F(1) = 1
RECURSIVE FibFrom(_, _, _)
FibFrom(a, b, k) == IF k = 0 THEN a ELSE FibFrom(b, a + b, k - 1)

F(n) == FibFrom(0, 1, n)

\* C13: fibonacci returns N = n and Result = F(n), F(0) = 0, F(1) = 1,
\* F(k) = F(k-1) + F(k-2), for every resolved n of the bounded set, and
\* fibonacciRecursive agrees with F there (F(10) = 55).
C13_FibonacciValue ==
    (CallReturned /\ CalledOp = "fibonacci" /\ calls[1].err = Nil) =>
        LET r == calls[1].res
        IN  /\ r.N = ResolvedSize
            /\ r.Result = F(r.N)
            /\ fibonacciRecursive(r.N) = F(r.N)
            /\ \A n \in 0..MaxFibN : CalledText = Itoa(n) => r.N = n
            /\ CalledText = Itoa(10) => r.Result = 55

\* position 10 was computed
C13_Witness ==
    /\ CallReturned
    /\ params.f = Itoa(10)
    /\ calls[1].res.N = 10
    /\ calls[1].res.Result = 55

\* C15: for every valid memory parameter, when the allocation does not
\* fail, allocateMemory returns no error and SizeKB equal to the resolved
\* size: the bare value, or the sampled value within [min, max] of a
\* range; SizeKB is 0 for the parameter "0".
C15_MemorySizeReported ==
    (CallReturned /\ CalledOp = "memory" /\ Valid(CalledText, MaxMemoryKB)
         /\ ~AllocationFailed) =>
        LET r == calls[1].res
        IN  /\ calls[1].err = Nil
            /\ r.SizeKB = ResolvedSize
            /\ ~Contains(CalledText, Sep) => r.SizeKB = Atoi(CalledText).val
            /\ Contains(CalledText, Sep) =>
                   /\ Atoi(Split(CalledText, Sep)[1]).val <= r.SizeKB
                   /\ r.SizeKB <= Atoi(Split(CalledText, Sep)[2]).val
            /\ CalledText = Itoa(0) => r.SizeKB = 0

\* a range was resolved to its upper bound and allocated
C15_Witness ==
    /\ CallReturned
    /\ params.m = RangeText(1, MaxRangeN)
    /\ ~AllocationFailed
    /\ calls[1].err = Nil
    /\ calls[1].res.SizeKB = MaxRangeN

(***************************************************************************)
(* Properties of createHexString, checked under SpecHex                    *)
(***************************************************************************)
HexAlphabet ==
    {"0", "1", "2", "3", "4", "5", "6", "7", "8", "9", "a", "b", "c", "d", "e", "f"}

\* C14: for every resolved size n with 0 <= n <= ceiling, createHexString
\* returns SizeKB = n and Length = n*1024 = the number of characters of
\* HexString, and every character written to HexString, whatever the
\* random source draws, is one of 0123456789abcdef; for n = 0 nothing is
\* written and the string is empty.
C14_HexStringShape ==
    /\ (hexCall.pc \in {"fill", "returned"} /\ hexCall.i > 0) =>
           hexCall.byte \in HexAlphabet
    /\ (hexCall.pc = "returned" /\ hexCall.err = Nil) =>
           /\ 0 <= hexCall.n /\ hexCall.n <= MaxHexKB
           /\ hexCall.res.SizeKB = hexCall.n
           /\ hexCall.res.Length = hexCall.n * 1024
           /\ hexCall.res.Length = hexCall.i
           /\ \A k \in 0..MaxFillKB : hexCall.param = Itoa(k) => hexCall.res.SizeKB = k
           /\ hexCall.n = 0 => (hexCall.res.Length = 0 /\ hexCall.byte = "")

\* the largest string of the bounded set was filled to its last character,
\* which the random source chose to be f
C14_Witness ==
    /\ hexCall.pc = "returned"
    /\ hexCall.param = Itoa(MaxFillKB)
    /\ hexCall.res.Length = MaxFillKB * 1024
    /\ hexCall.i = MaxFillKB * 1024
    /\ hexCall.byte = "f"

(***************************************************************************)
(* Properties of the request metrics, checked under SpecMetrics            *)
(***************************************************************************)
Succeeded == requests.status = StatusOK

\* C16: for every successful request, under any interleaving with the
\* other requests, the reported memory_used_bytes is the heap-allocated
\* counter read in finish() minus the counter read in
\* startRequestMetrics() of that same request, whatever its sign and
\* whoever allocated in between, and goroutines_before and
\* goroutines_after are the goroutine counts read at those two points.
C16_MemoryDeltaOfOwnSnapshots ==
    (requests # <<>> /\ Succeeded) =>
        /\ requests.reported.MemoryUsedBytes =
               requests.reads.allocFinish - requests.reads.allocStart
        /\ requests.reported.GoroutinesBefore = requests.reads.goroutinesStart
        /\ requests.reported.GoroutinesAfter = requests.reads.goroutinesFinish

\* the request allocated nothing itself and reported the bytes another
\* request allocated meanwhile, and a goroutine more at its end than at
\* its start
C16_Witness ==
    /\ requests # <<>>
    /\ Succeeded
    /\ requests.allocated = 0
    /\ requests.reported.MemoryUsedBytes > 0
    /\ requests.reported.GoroutinesAfter > requests.reported.GoroutinesBefore


(***************************************************************************)
(* Properties of the prime loop, checked under SpecPrimes                  *)
(***************************************************************************)
\* the loop of generatePrimes has been entered and has not returned
InPrimeLoop == primeCall.pc \in {"outer", "inner", "after"}

\* C23: during generatePrimes(n) the full list of the primes found is never
\* materialized: the number of primes held in memory stays below the number
\* of primes found, bounded independently of n, and only the count and the
\* last prime are kept for the result.
C23_PrimesNeverMaterialized ==
    primeCall.count >= 3 => Len(primeCall.primes) < primeCall.count

\* the stored list is the first k primes, in strictly ascending order
FirstPrimes(list, k) ==
    /\ Len(list) = k
    /\ \A i \in 1..Len(list) : IsPrime(list[i])
    /\ \A i \in 1..(Len(list) - 1) : list[i] < list[i + 1]
    /\ \A q \in 2..list[Len(list)] : IsPrime(q) => \E i \in 1..Len(list) : list[i] = q

\* C24: loop invariant of generatePrimes for n >= 2: at the start of every
\* iteration the stored list is exactly the first count primes in strictly
\* ascending order, count is its length, lastPrime its last element and
\* the candidate the next of the successive odd numbers from 3; a candidate
\* is divided only by stored primes p with p*p <= candidate, and it is
\* appended if and only if it is prime.
C24_PrimeLoopInvariant ==
    /\ primeCall.pc = "outer" =>
           /\ primeCall.n >= 2
           /\ primeCall.count <= primeCall.n
           /\ FirstPrimes(primeCall.primes, primeCall.count)
           /\ primeCall.lastPrime = primeCall.primes[Len(primeCall.primes)]
           /\ primeCall.candidate = 3 + 2 * primeCall.iterations
           /\ \A q \in (primeCall.lastPrime + 1)..(primeCall.candidate - 1) : ~IsPrime(q)
    /\ InPrimeLoop =>
           \A i \in 1..Len(primeCall.divided) :
               /\ \E j \in 1..Len(primeCall.primes) : primeCall.primes[j] = primeCall.divided[i]
               /\ primeCall.divided[i] * primeCall.divided[i] <= primeCall.candidate
    /\ primeCall.pc = "after" => (primeCall.isPrime <=> IsPrime(primeCall.candidate))

\* generatePrimes(10) is at the head of its loop for the last time: ten
\* primes are stored, the last is 29, and 9, 15, 21, 25 and 27 were refused
C24_Witness ==
    /\ primeCall.pc = "outer"
    /\ primeCall.n = 10
    /\ primeCall.primes = <<2, 3, 5, 7, 11, 13, 17, 19, 23, 29>>
    /\ primeCall.count = 10
    /\ primeCall.lastPrime = 29
    /\ primeCall.candidate = 31


(***************************************************************************)
(* Properties of the page-touch loop, checked under SpecTouch              *)
(***************************************************************************)
\* the 4096-byte pages of a buffer of len bytes, a final partial page
\* included, by number
PagesOf(len) == 0..(((len + 4095) \div 4096) - 1)

\* C25: for every resolved size k, allocateMemory allocates exactly k*1024
\* bytes and writes one byte at each offset 0, 4096, 8192, ... strictly
\* below k*1024 and at no other offset: every 4096-byte page of the
\* buffer, a final partial page included, is touched exactly once, every
\* write index is within bounds, and for k = 0 nothing is written.
C25_EveryPageTouchedOnce ==
    /\ ~memCall.made => memCall.writes = <<>>
    /\ memCall.made =>
           /\ 0 <= memCall.k /\ memCall.k <= MaxMemoryKB
           /\ memCall.len = memCall.k * 1024
           /\ ~memCall.panicked
           /\ \A j \in 1..Len(memCall.writes) :
                  /\ memCall.writes[j] = (j - 1) * 4096
                  /\ 0 <= memCall.writes[j] /\ memCall.writes[j] < memCall.len
           /\ memCall.k = 0 => memCall.writes = <<>>
    /\ (memCall.made /\ memCall.pc = "returned") =>
           \A page \in PagesOf(memCall.len) :
               Cardinality({j \in 1..Len(memCall.writes) :
                               memCall.writes[j] \div 4096 = page}) = 1

\* allocateMemory("5") returned: 5120 bytes, written at 0 and at 4096, the
\* second write on the final, partial page
C25_Witness ==
    /\ memCall.pc = "returned"
    /\ memCall.k = 5
    /\ memCall.len = 5120
    /\ memCall.writes = <<0, 4096>>
    /\ memCall.err = Nil


(***************************************************************************)
(* Properties of a request handled statement by statement, checked under   *)
(* SpecSteps, and its termination under SpecLive                           *)
(***************************************************************************)
\* the handler has returned
Handled == run.pc = "done"

\* C26: every request terminates: for every parameter combination each
\* handler reaches a response in finitely many steps; for every valid n
\* the prime loop of generatePrimes eventually reaches count = n and the
\* recursion of fibonacciRecursive bottoms out at n <= 1; no generator is
\* abandoned part-way once started.
C26_EveryRequestTerminates ==
    /\ (run.pc = "arrived") ~> (Handled /\ Len(run.responses) = 1)
    /\ [](primeCall.pc = "returned" /\ primeCall.err = Nil
             => primeCall.res.Count = primeCall.n)
    /\ [](fibCall.pc = "returned" => fibCall.stack = <<>>)
    /\ [](\A i \in 1..Len(fibCall.stack) : fibCall.stack[i].n >= 0)
    /\ [](Handled => (GenIdle /\ HexIdle))

\* /primes/hex/memory/4/0/4 was answered 200 after the prime loop had found
\* its four primes and the page-touch loop had run
C26_Witness ==
    /\ Handled
    /\ run.route = "primesHexMemory"
    /\ Len(run.responses) = 1
    /\ run.responses[1].status = StatusOK
    /\ run.responses[1].data.prime_result.Count = MaxStepN
    /\ run.responses[1].data.memory_result.SizeKB = MaxStepN

\* C29: on every path through every handler exactly one response is written
\* per request; metrics.finish() is called at most once per request, only
\* immediately before a 200 response and never on an error path, so an error
\* response carries only a message, no request_metrics and no partial
\* operation results.
C29_OneResponseFinishOnlyBefore200 ==
    /\ Len(run.responses) <= 1
    /\ Handled <=> Len(run.responses) = 1
    /\ run.metrics.finishCalls <= 1
    /\ \A i \in 1..Len(run.trace) :
           run.trace[i] = "finish" => (i = Len(run.trace) \/ run.trace[i + 1] = "200")
    /\ \A i \in 1..Len(run.responses) :
           LET resp == run.responses[i]
           IN  /\ resp.status \in {StatusOK, StatusBadRequest}
               /\ resp.status = StatusBadRequest =>
                      /\ run.metrics.finishCalls = 0
                      /\ \A j \in 1..Len(run.trace) : run.trace[j] # "finish"
                      /\ DOMAIN resp = {"status", "message"}
               /\ resp.status = StatusOK =>
                      /\ run.metrics.finishCalls = 1
                      /\ Len(run.trace) >= 2
                      /\ run.trace[Len(run.trace) - 1] = "finish"
                      /\ run.trace[Len(run.trace)] = "200"
                      /\ DOMAIN resp = {"status", "data", "request_metrics"}

\* /fibonacci/hex/memory/4/0/<MaxMemoryKB+1> ran fibonacci and
\* createHexString, then answered 400 without having called finish()
C29_Witness ==
    /\ Handled
    /\ run.route = "fibonacciHexMemory"
    /\ Len(run.data) = 2
    /\ run.responses = <<BadRequest("m", Errorf("number out of range (0-%d)", Itoa(MaxMemoryKB)))>>
    /\ run.metrics.finishCalls = 0

RECURSIVE SumDurationUs(_)
\* the sum of the duration_us of the operation results
SumDurationUs(results) ==
    IF results = <<>> THEN 0
    ELSE Head(results).res.DurationUs + SumDurationUs(Tail(results))

\* C30: for every successful request the request-level interval encloses
\* the intervals of the operations: startRequestMetrics is taken before the
\* first operation's start and finish after the last operation's end, the
\* operations' intervals do not overlap, and request_metrics.duration_us is
\* at least the sum of the duration_us of the operations in the response.
C30_RequestIntervalEnclosesOperations ==
    (Handled /\ run.responses[1].status = StatusOK) =>
        LET d == run.data
            rm == run.responses[1].request_metrics
        IN  /\ Len(d) = Len(Operations(run.route))
            /\ rm.StartTime <= d[1].start
            /\ \A k \in 1..Len(d) : d[k].start <= d[k].end
            /\ \A k \in 1..(Len(d) - 1) : d[k].end <= d[k + 1].start
            /\ d[Len(d)].end <= rm.EndTime
            /\ rm.DurationUs >= SumDurationUs(d)

\* a request of three operations where time passed only inside the
\* operations: each took ElapsedNs and the request three times as long
C30_Witness ==
    /\ Handled
    /\ run.responses[1].status = StatusOK
    /\ Len(run.data) = 3
    /\ \A k \in 1..3 : run.data[k].end - run.data[k].start = ElapsedNs
    /\ run.metrics.EndTime - run.metrics.StartTime = 3 * ElapsedNs
    /\ run.responses[1].request_metrics.DurationUs > SumDurationUs(run.data)

\* the step is the parseIntOrRange call of the operation function whose
\* call is c before the step and d after it, and it takes one value from
\* the random source when it parses a range and none otherwise
ParseTakes(c, d) ==
    (c.pc = "called" /\ d.pc # "called") =>
        randSource' - randSource =
            IF d.err = Nil /\ Contains(c.param, Sep) THEN 1 ELSE 0

\* the request is for primes, a Fibonacci number or memory, with a bare
\* integer
BareRequest ==
    /\ run.route \in {"getPrimes", "getFibonacci", "getMemory"}
    /\ ~Contains(run.params[Letter(Operations(run.route)[1])], Sep)

\* C28: frame of the process-wide random source: a call of parseIntOrRange
\* that fails and a call that parses a bare integer consume no value from
\* it, a successful range parse consumes exactly one; nothing but a parse
\* and the fill of the hexadecimal string touches it, so prime, Fibonacci
\* and memory requests with bare-integer parameters leave it unchanged.
C28_RandomSourceFrame ==
    /\ [][ /\ ParseTakes(primeCall, primeCall')
           /\ ParseTakes(fibCall, fibCall')
           /\ ParseTakes(hexCall, hexCall')
           /\ ParseTakes(memCall, memCall')
           /\ randSource' # randSource =>
                  \/ \E c \in {primeCall.pc, fibCall.pc, hexCall.pc, memCall.pc} :
                         c = "called"
                  \/ hexCall.pc = "fill" /\ randSource' = randSource + 1 ]_vars
    /\ [](BareRequest => randSource = 0)

\* /memory/2..3 was answered 200 and took one value from the random source
C28_Witness ==
    /\ Handled
    /\ run.route = "getMemory"
    /\ run.params.m = RangeText(2, 3)
    /\ run.responses[1].status = StatusOK
    /\ randSource = 1

(***************************************************************************)
(* Properties of the random source in parseIntOrRange, checked under       *)
(* SpecParse                                                               *)
(***************************************************************************)
\* C27: parseIntOrRange never calls the random source with a non-positive
\* bound: whenever rand.Intn(max-min+1) is reached, 0 <= min <= max <=
\* ceiling holds, so the argument is at least 1 and the call does not panic.
C27_IntnArgumentPositive ==
    randSource >= 1 =>
        LET parts == Split(param, Sep)
            min == Atoi(TrimSpace(parts[1]))
            max == Atoi(TrimSpace(parts[2]))
        IN  /\ Len(parts) = 2
            /\ min.ok /\ max.ok
            /\ 0 <= min.val
            /\ min.val <= max.val
            /\ max.val <= maxValue
            /\ max.val - min.val + 1 >= 1
            /\ ret.err = Nil
            /\ ret.value \in min.val..max.val

\* "0..<MaxCeil>" under the ceiling MaxCeil: rand.Intn(MaxCeil + 1) was
\* called and returned its largest value
C27_Witness ==
    /\ randSource = 1
    /\ param = RangeText(0, MaxCeil)
    /\ maxValue = MaxCeil
    /\ ret.err = Nil
    /\ ret.value = MaxCeil

(***************************************************************************)
(* Properties of the combined routes, checked under Spec                   *)
(***************************************************************************)
\* the operations whose generator body executed, in the order of execution
OperationsRun(events) ==
    LET ran == SelectSeq(events, LAMBDA e : e.ev = "run")
    IN  [i \in 1..Len(ran) |-> ran[i].op]

\* C21: on a successful multi-operation request each constituent generator
\* runs exactly once, in left-to-right order (primes or Fibonacci, then
\* hex, then memory), and the data of the response holds exactly one entry
\* per operation, the result that operation returned, under the keys
\* prime_result / fibonacci_result, hex_result and memory_result.
C21_EachGeneratorOnceInOrder ==
    (route \in MultiHandlers /\ response.status = StatusOK) =>
        LET ops == Operations(route)
        IN  /\ OperationsRun(log) = ops
            /\ Len(calls) = Len(ops)
            /\ DOMAIN response.data = {ResultKey(ops[i]) : i \in 1..Len(ops)}
            /\ \A i \in 1..Len(ops) :
                   /\ calls[i].err = Nil
                   /\ response.data[ResultKey(ops[i])] = calls[i].res

\* /primes/hex/memory/5/1/... was answered 200 with the three results, the
\* generators having run in the order primes, hex, memory
C21_Witness ==
    /\ route = "primesHexMemory"
    /\ response.status = StatusOK
    /\ OperationsRun(log) = <<"primes", "hex", "memory">>
    /\ response.data.prime_result.Count = 5
    /\ response.data.hex_result.Length = 1024
    /\ response.data.memory_result.SizeKB >= 1

(***************************************************************************)
(* Properties of concurrently handled requests, checked under              *)
(* SpecConcurrent                                                          *)
(***************************************************************************)
\* the outcome of the operation function called on text whose range drew
\* the size e.size and whose allocation panicked or not as e.panicked
OutcomeAlone(op, text, e) ==
    CHOOSE o \in OperationFunction(op, text) :
        /\ o.log[1].size = e.size
        /\ e.panicked <=> \E k \in 1..Len(o.log) : o.log[k].ev = "recover"

RECURSIVE Alone(_, _, _, _)
\* the status and the message or data of the response of the handler run
\* from its first statement to its last with nothing in between, given what
\* the random source and the allocator gave to each of its operations
Alone(handler, req, env, results) ==
    LET k == Len(results) + 1
    IN  IF k > Len(Operations(handler))
        THEN [status |-> StatusOK, data |-> DataOf(handler, results)]
        ELSE LET op == Operations(handler)[k]
                 o == OutcomeAlone(op, req[Letter(op)], env[k])
             IN  IF o.err # Nil
                 THEN [status |-> StatusBadRequest,
                       message |-> [name |-> Letter(op), err |-> o.err]]
                 ELSE Alone(handler, req, env, Append(results, [op |-> op, res |-> o.res]))

\* the response without its request_metrics
Deterministic(resp) == [f \in (DOMAIN resp) \ {"request_metrics"} |-> resp[f]]

====
